---- MODULE Spec2Model ----
(***************************************************************************)
(* Model of the message batching engine of src/src/adapters/redis.ts       *)
(* (class MessageBatchManager): per-lead queue and markers in Redis, the   *)
(* in-process timer map, and the asynchronous calls (addMessage, timer     *)
(* callbacks) that interleave at their awaits.                             *)
(*                                                                         *)
(* One action models one await: the Redis command executing on the server  *)
(* together with the JavaScript that runs when its reply resolves, up to   *)
(* the sending of the next command.  Time is a millisecond clock advanced  *)
(* in steps of TickMs; a Node timer fires once its deadline is reached.    *)
(***************************************************************************)
EXTENDS Integers, Sequences, FiniteSets, TLC

VARIABLES
    now,            \* Date.now(), in ms; also the Redis server clock
    messages,       \* lead:<id>:messages    (Redis list, head first)
    processing,     \* lead:<id>:processing  (the lock)
    batch_start,    \* lead:<id>:batch_start (window marker)
    timerKey,       \* lead:<id>:timer       (timer marker)
    last_response,  \* lead:<id>:last_response
    timers,         \* this.timers: instance -> lead -> timer id (0: no entry)
    armed,          \* Node's pending setTimeout callbacks
    calls,          \* the asynchronous calls in flight, each at an await
    nextId,         \* the next message_id an arrival carries
    arrived,        \* observer: events lPush-ed since the queue was last deleted, oldest first
    delivered,      \* observer: message_id -> number of callback batches that held it
    flow,           \* observer: times of the first and latest lPush of the pending queue
    lastEvent       \* observer: what the latest step completed

vars == <<now, messages, processing, batch_start, timerKey, last_response,
          timers, armed, calls, nextId, arrived, delivered, flow, lastEvent>>

---------------------------------------------------------------------------
(* BATCH_CONFIG *)
MESSAGE_DELAY == 5000
MAX_BATCH_SIZE == 10
MAX_WAIT_TIME == 30000
PROCESSING_TIMEOUT == 60
RESPONSE_TTL == 300
(* the 5000 ms added to MESSAGE_DELAY for the timer marker's TTL *)
TIMER_MARKER_MARGIN == 5000

(* Bounds of the model *)
TickMs == 1000
MaxMsgs == 2
MaxTicks == 5
MaxInFlight == 2
MaxMsgsRelay == 3
MaxWaitsRelay == 3
MaxMsgsBurst == 11
MaxTicksBurst == 5
MaxMsgsLatency == 2
MaxTicksLatency == 6
MaxMsgsSlow == 9
MaxTicksSlow == 32
ArrivalEvery == 4
ArrivedSlow == 7
MaxMsgsOrdered == 3
MaxMsgsQuery == 1
MaxWaitsQuery == 1
MaxQueries == 1
MaxMsgsDrain == 1
MaxWaitsDrain == 1
MaxRuns == 2
MaxMsgsFault == 10
MaxMsgsCrash == 2
MaxMsgsOverlap == 3
MaxWaitsOverlap == 1
MaxInFlightOverlap == 2
MaxMsgsPair == 3
MaxWaitsPair == 2
MaxMsgsDuo == 2
MaxWaitsDuo == 1
MaxMsgsHook == 10
MaxMsgsDebounce == 2
MaxWaitsDebounce == 1
MaxInFlightDebounce == 2
HookTypes == {"text", "voice"}
DebounceTypes == {"text", "file"}
MaxTicksCrash == 5
MaxWaitsOrdered == 2

(* The lead and the instance of the specifications of one entity on one process *)
Leads == {42}
Instances == {1}
(* Every lead whose keys exist in the store, every process sharing the store *)
AllLeads == {42, 43}
AllInstances == {1, 2}

---------------------------------------------------------------------------
(* The Redis store: a key is absent, or holds a value and an expiry time   *)
(* (NoTTL: none).  Redis deletes a key once the clock has passed its       *)
(* expiry time.                                                            *)
NoTTL == -1
Absent == [present |-> FALSE]
Key(v, e) == [present |-> TRUE, value |-> v, expireAt |-> e]

Live(k, t) == k.present /\ (k.expireAt = NoTTL \/ t <= k.expireAt)
Purge(k, t) == IF Live(k, t) THEN k ELSE Absent

(* SETEX key seconds value *)
setEx(seconds, v) == Key(v, now + seconds * 1000)
(* EXPIRE key seconds: refreshes the TTL of an existing key *)
expire(k, seconds) == IF k.present THEN Key(k.value, now + seconds * 1000) ELSE k
(* LPUSH inserts at the head of the list *)
lPush(list, v) == <<v>> \o list
(* LRANGE key 0 -1: the whole list, head first *)
lRange(list) == list

(* JSON.stringify / JSON.parse of a MessageData, of a responseData or errorData *)
Stringify(m) == [json |-> m]
Parse(s) == s.json

MessageData(n) ==
    [message |-> <<"text", n>>, message_id |-> n, message_type |-> "text",
     date |-> <<"date", n>>]
NoMsg == [message |-> <<"none", 0>>, message_id |-> 0, message_type |-> "none",
          date |-> <<"none", 0>>]

(* parsedMessages.map((msg, index) => `Mensaje ${index + 1} (${msg.date}): ${msg.message}`) *)
CombinedMessage(parsed) ==
    [k \in 1..Len(parsed) |-> <<k, parsed[k].date, parsed[k].message>>]

BatchResult(l, raw) ==
    LET parsed == [k \in 1..Len(raw) |-> Parse(raw[k])]
    IN [messages |-> parsed, lead_id |-> l,
        combinedMessage |-> CombinedMessage(parsed), messageCount |-> Len(raw)]
NoBatch == [messages |-> <<>>, lead_id |-> 0, combinedMessage |-> <<>>, messageCount |-> 0]

(* responseData / errorData of processAndCloseFlow *)
ResponseData(count, t) ==
    [response |-> "aiResponse", processed_messages |-> count, processed_at |-> t,
     status |-> "completed"]
(* error instanceof Error ? error.message : 'Unknown error' *)
ErrorData(thrown, t) ==
    [error |-> IF thrown = "Error" THEN "error.message" ELSE "Unknown error",
     processed_at |-> t, status |-> "error"]
NoData == [status |-> "none"]

---------------------------------------------------------------------------
(* A call in flight: addMessage ("add") or a timer callback ("fire").      *)
NewCall(k, n, i, l, at, others) ==
    [id |-> n, kind |-> k, inst |-> i, lead |-> l, pc |-> at,
     msg |-> IF k = "add" THEN MessageData(n) ELSE NoMsg,
     isNewFlow |-> FALSE, messageCount |-> 0, hasTimer |-> FALSE,
     immediate |-> FALSE, acquired |-> FALSE, batch |-> NoBatch,
     data |-> NoData, outcome |-> "none", startValue |-> 0, messagesInBatch |-> 0,
     thrown |-> "none", pending |-> FALSE, invokedAt |-> -1, savedAt |-> -1,
     failed |-> "none", overtook |-> {},
     sawAdd |-> \E d \in others : d.lead = l /\ d.kind = "add",
     sawFire |-> \E d \in others : d.lead = l /\ d.kind \in {"fire", "run"}]

(* The calls already in flight note that one more call of kind k on lead l started *)
Seen(d, k, l) ==
    IF d.lead # l THEN d
    ELSE IF k = "add" THEN [d EXCEPT !.sawAdd = TRUE] ELSE [d EXCEPT !.sawFire = TRUE]

NoEvent == [type |-> "none", call |-> NewCall("none", 0, 0, 0, "none", {})]
Event(t, c) == [type |-> t, call |-> c]

AddsInFlight == {c \in calls : c.kind = "add"}

NoFlow == [first |-> 0, last |-> 0, spaced |-> TRUE]

Init ==
    /\ now = 0
    /\ messages = [l \in AllLeads |-> <<>>]
    /\ processing = [l \in AllLeads |-> Absent]
    /\ batch_start = [l \in AllLeads |-> Absent]
    /\ timerKey = [l \in AllLeads |-> Absent]
    /\ last_response = [l \in AllLeads |-> Absent]
    /\ timers = [i \in AllInstances |-> [l \in AllLeads |-> 0]]
    /\ armed = {}
    /\ calls = {}
    /\ nextId = 1
    /\ arrived = [l \in AllLeads |-> <<>>]
    /\ delivered = <<>>
    /\ flow = [l \in AllLeads |-> NoFlow]
    /\ lastEvent = NoEvent

---------------------------------------------------------------------------
storeVars == <<messages, processing, batch_start, timerKey, last_response>>
timerVars == <<timers, armed>>
obsVars == <<arrived, delivered, flow>>

(* A call resumes on the reply of its command.  A call whose four dels are executed *)
(* resumes after Promise.all, one microtask later than a call whose reply comes in  *)
(* the same chunk: it notes the calls of its process that resumed meanwhile.        *)
Overtaken(e, c) ==
    IF e.pc = "cleanup_timers" /\ e.inst = c.inst
    THEN [e EXCEPT !.overtook = @ \cup {<<c.kind, c.id>>}]
    ELSE e

(* A call returns: it is no longer in flight *)
Leave(c) ==
    calls' = {[e EXCEPT !.overtook = @ \ {<<c.kind, c.id>>}] : e \in calls \ {c}}

Become(c, c2) ==
    calls' = {Overtaken(e, c) : e \in calls \ {c}} \cup {[c2 EXCEPT !.overtook = {}]}

(* clearTimeout(handle) followed by this.timers.delete(lead_id) *)
ClearTimer(i, l) ==
    /\ armed' = {t \in armed : ~(t.inst = i /\ t.id = timers[i][l])}
    /\ timers' = [timers EXCEPT ![i][l] = 0]

(* setTimeout(..., MESSAGE_DELAY) followed by this.timers.set(lead_id, timerId) *)
ArmTimer(c) ==
    /\ armed' = armed \cup {[id |-> c.id, inst |-> c.inst, lead |-> c.lead,
                             fireAt |-> now + MESSAGE_DELAY]}
    /\ timers' = [timers EXCEPT ![c.inst][c.lead] = c.id]

(* the size test written with > *)
shouldProcessImmediately_above(messageCount, batchStart, t) ==
    IF messageCount > MAX_BATCH_SIZE THEN TRUE
    ELSE IF batchStart.present THEN t - batchStart.value >= MAX_WAIT_TIME
    ELSE FALSE

(* shouldProcessImmediately, once its two reads have resolved; t is Date.now() *)
shouldProcessImmediately(messageCount, batchStart, t) ==
    IF messageCount >= MAX_BATCH_SIZE THEN TRUE
    ELSE IF batchStart.present THEN t - batchStart.value >= MAX_WAIT_TIME
    ELSE FALSE

(* only the queue length is looked at *)
hasActiveFlow_queueOnly(messageCount, hasTimer, isProcessing) ==
    messageCount > 0

(* hasActiveFlow, once its three reads have resolved *)
hasActiveFlow(messageCount, hasTimer, isProcessing) ==
    messageCount > 0 \/ hasTimer \/ isProcessing

---------------------------------------------------------------------------
(* addMessage is called: the first command (lLen of hasActiveFlow) is sent *)
addMessage(i, l, maxMsgs, maxAdds) ==
    /\ nextId <= maxMsgs
    /\ Cardinality(AddsInFlight) < maxAdds
    /\ calls' = {Seen(d, "add", l) : d \in calls}
                  \cup {NewCall("add", nextId, i, l, "haf_lLen", calls)}
    /\ nextId' = nextId + 1
    /\ delivered' = Append(delivered, 0)
    /\ lastEvent' = NoEvent
    /\ UNCHANGED <<now, storeVars, timerVars, arrived, flow>>

haf_lLen(c) ==
    /\ c.pc = "haf_lLen"
    /\ Become(c, [c EXCEPT !.messageCount = Len(messages[c.lead]),
                           !.pc = "haf_existsTimer"])
    /\ lastEvent' = NoEvent
    /\ UNCHANGED <<now, storeVars, timerVars, nextId, obsVars>>

haf_existsTimer(c) ==
    /\ c.pc = "haf_existsTimer"
    /\ Become(c, [c EXCEPT !.hasTimer = timerKey[c.lead].present,
                           !.pc = "haf_existsProcessing"])
    /\ lastEvent' = NoEvent
    /\ UNCHANGED <<now, storeVars, timerVars, nextId, obsVars>>

haf_existsProcessing(c) ==
    /\ c.pc = "haf_existsProcessing"
    /\ Become(c, [c EXCEPT !.isNewFlow = ~hasActiveFlow(c.messageCount, c.hasTimer,
                                                        processing[c.lead].present),
                           !.pc = "lPush"])
    /\ lastEvent' = NoEvent
    /\ UNCHANGED <<now, storeVars, timerVars, nextId, obsVars>>

add_lPush(c) ==
    /\ c.pc = "lPush"
    /\ messages' = [messages EXCEPT ![c.lead] = lPush(@, Stringify(c.msg))]
    /\ arrived' = [arrived EXCEPT ![c.lead] = Append(@, c.msg.message_id)]
    /\ flow' = [flow EXCEPT ![c.lead] =
                  IF Len(messages[c.lead]) = 0
                  THEN [first |-> now, last |-> now, spaced |-> TRUE]
                  ELSE [first |-> @.first, last |-> now,
                        spaced |-> @.spaced /\ now - @.last < MESSAGE_DELAY]]
    /\ Become(c, [c EXCEPT !.pc = "spi_lLen"])
    /\ lastEvent' = Event("lPush", c)
    /\ UNCHANGED <<now, processing, batch_start, timerKey, last_response, timerVars,
                   nextId, delivered>>

spi_lLen(c) ==
    /\ c.pc = "spi_lLen"
    /\ Become(c, [c EXCEPT !.messageCount = Len(messages[c.lead]), !.pc = "spi_get"])
    /\ lastEvent' = NoEvent
    /\ UNCHANGED <<now, storeVars, timerVars, nextId, obsVars>>

(* get(batch_start) of shouldProcessImmediately resolves; addMessage then either     *)
(* enters processAndCloseFlow (setNX sent) or scheduleMessageProcessing, whose       *)
(* synchronous head cancels the timer in this.timers before its first await.        *)
spi_get(c) ==
    /\ c.pc = "spi_get"
    /\ LET imm == shouldProcessImmediately(c.messageCount, batch_start[c.lead], now)
       IN IF imm
          THEN /\ Become(c, [c EXCEPT !.immediate = TRUE, !.pc = "setNX"])
               /\ UNCHANGED timerVars
          ELSE /\ Become(c, [c EXCEPT !.immediate = FALSE, !.pc = "sch_get"])
               /\ IF timers[c.inst][c.lead] # 0
                  THEN ClearTimer(c.inst, c.lead)
                  ELSE UNCHANGED timerVars
    /\ lastEvent' = NoEvent
    /\ UNCHANGED <<now, storeVars, nextId, obsVars>>

(* the timer is armed only when a new batch is started *)
sch_get_armsOnlyNewBatch(c) ==
    /\ c.pc = "sch_get"
    /\ IF ~batch_start[c.lead].present
       THEN Become(c, [c EXCEPT !.startValue = now, !.pc = "sch_setEx_batch_start"])
       ELSE Become(c, [c EXCEPT !.pc = "sch_setEx_timer"])
    /\ lastEvent' = NoEvent
    /\ UNCHANGED <<now, storeVars, timerVars, nextId, obsVars>>

(* get(batch_start) of scheduleMessageProcessing resolves *)
sch_get(c) ==
    /\ c.pc = "sch_get"
    /\ IF ~batch_start[c.lead].present
       THEN /\ Become(c, [c EXCEPT !.startValue = now, !.pc = "sch_setEx_batch_start"])
            /\ UNCHANGED timerVars
       ELSE /\ Become(c, [c EXCEPT !.pc = "sch_setEx_timer"])
            /\ ArmTimer(c)
    /\ lastEvent' = NoEvent
    /\ UNCHANGED <<now, storeVars, nextId, obsVars>>

sch_setEx_batch_start(c) ==
    /\ c.pc = "sch_setEx_batch_start"
    /\ batch_start' = [batch_start EXCEPT ![c.lead] =
                          setEx(MAX_WAIT_TIME \div 1000, c.startValue)]
    /\ Become(c, [c EXCEPT !.pc = "sch_setEx_timer"])
    /\ ArmTimer(c)
    /\ lastEvent' = NoEvent
    /\ UNCHANGED <<now, messages, processing, timerKey, last_response, nextId, obsVars>>

sch_setEx_timer(c) ==
    /\ c.pc = "sch_setEx_timer"
    /\ timerKey' = [timerKey EXCEPT ![c.lead] =
                       setEx((MESSAGE_DELAY + TIMER_MARKER_MARGIN) \div 1000, "active")]
    /\ Become(c, [c EXCEPT !.pc = "ret_lLen"])
    /\ lastEvent' = NoEvent
    /\ UNCHANGED <<now, messages, processing, batch_start, last_response, timerVars,
                   nextId, obsVars>>

(* the final lLen of addMessage resolves and addMessage returns *)
ret_lLen(c) ==
    /\ c.pc = "ret_lLen"
    /\ Leave(c)
    /\ lastEvent' = Event("return", [c EXCEPT !.messagesInBatch = Len(messages[c.lead]),
                                              !.pc = "returned"])
    /\ UNCHANGED <<now, storeVars, timerVars, nextId, obsVars>>

---------------------------------------------------------------------------
(* processAndCloseFlow: setNX(processingKey, '1') resolves.  A false reply returns *)
(* from inside the try block, so the finally block runs cleanupFlow all the same.  *)
(* processAndCloseFlow without the return on a false setNX *)
paf_setNX_ignoresReply(c) ==
    /\ c.pc = "setNX"
    /\ IF processing[c.lead].present
       THEN /\ Become(c, [c EXCEPT !.acquired = FALSE, !.pc = "expire"])
            /\ UNCHANGED processing
       ELSE /\ processing' = [processing EXCEPT ![c.lead] = Key("1", NoTTL)]
            /\ Become(c, [c EXCEPT !.acquired = TRUE, !.pc = "expire"])
    /\ lastEvent' = NoEvent
    /\ UNCHANGED <<now, messages, batch_start, timerKey, last_response, timerVars,
                   nextId, obsVars>>

paf_setNX(c) ==
    /\ c.pc = "setNX"
    /\ IF processing[c.lead].present
       THEN /\ Become(c, [c EXCEPT !.acquired = FALSE, !.outcome = "skipped",
                                   !.pc = "cleanup_del"])
            /\ UNCHANGED processing
       ELSE /\ processing' = [processing EXCEPT ![c.lead] = Key("1", NoTTL)]
            /\ Become(c, [c EXCEPT !.acquired = TRUE, !.pc = "expire"])
    /\ lastEvent' = NoEvent
    /\ UNCHANGED <<now, messages, batch_start, timerKey, last_response, timerVars,
                   nextId, obsVars>>

paf_expire(c) ==
    /\ c.pc = "expire"
    /\ processing' = [processing EXCEPT ![c.lead] = expire(@, PROCESSING_TIMEOUT)]
    /\ Become(c, [c EXCEPT !.pc = "lRange"])
    /\ lastEvent' = NoEvent
    /\ UNCHANGED <<now, messages, batch_start, timerKey, last_response, timerVars,
                   nextId, obsVars>>

(* lRange resolves: an empty list returns (to the finally block); otherwise the     *)
(* batch is built and onProcessBatch(batchResult) is invoked.                       *)
(* processAndCloseFlow without the return on an empty queue *)
paf_lRange_noEmptyReturn(c) ==
    /\ c.pc = "lRange"
    /\ LET raw == lRange(messages[c.lead])
           batch == BatchResult(c.lead, raw)
           ids == {batch.messages[k].message_id : k \in 1..Len(raw)}
       IN /\ Become(c, [c EXCEPT !.batch = batch, !.invokedAt = now, !.pc = "callback"])
          /\ lastEvent' = Event("invoke", [c EXCEPT !.batch = batch, !.invokedAt = now,
                                                    !.pc = "callback"])
          /\ delivered' = [n \in 1..Len(delivered) |->
                              IF n \in ids THEN delivered[n] + 1 ELSE delivered[n]]
    /\ UNCHANGED <<now, storeVars, timerVars, nextId, arrived, flow>>

paf_lRange(c) ==
    /\ c.pc = "lRange"
    /\ LET raw == lRange(messages[c.lead])
           batch == BatchResult(c.lead, raw)
           ids == {batch.messages[k].message_id : k \in 1..Len(raw)}
       IN IF Len(raw) = 0
          THEN /\ Become(c, [c EXCEPT !.outcome = "empty", !.pc = "cleanup_del"])
               /\ lastEvent' = NoEvent
               /\ UNCHANGED delivered
          ELSE /\ Become(c, [c EXCEPT !.batch = batch, !.invokedAt = now,
                                      !.pc = "callback"])
               /\ lastEvent' = Event("invoke", [c EXCEPT !.batch = batch,
                                                         !.invokedAt = now,
                                                         !.pc = "callback"])
               /\ delivered' = [n \in 1..Len(delivered) |->
                                   IF n \in ids THEN delivered[n] + 1 ELSE delivered[n]]
    /\ UNCHANGED <<now, storeVars, timerVars, nextId, arrived, flow>>

(* try/finally without the catch block: a rejection goes straight to cleanupFlow *)
paf_callback_uncaught(c) ==
    /\ c.pc = "callback"
    /\ \E r \in {"resolve", "Error", "other"} :
          Become(c, [c EXCEPT !.data = IF r = "resolve"
                                       THEN ResponseData(c.batch.messageCount, now)
                                       ELSE NoData,
                              !.outcome = IF r = "resolve" THEN "completed" ELSE "error",
                              !.thrown = IF r = "resolve" THEN "none" ELSE r,
                              !.pending = (r # "resolve"),
                              !.pc = IF r = "resolve" THEN "setEx_last_response"
                                     ELSE "cleanup_del"])
    /\ lastEvent' = NoEvent
    /\ UNCHANGED <<now, storeVars, timerVars, nextId, obsVars>>

(* The Processing Callback settles.  It resolves with the response: responseData  *)
(* is built and its setEx sent.  Or it rejects, with an Error or with another      *)
(* value: the exception enters the catch block, which builds errorData and sends   *)
(* its setEx.                                                                      *)
paf_callback(c) ==
    /\ c.pc = "callback"
    /\ \E r \in {"resolve", "Error", "other"} :
          Become(c, [c EXCEPT !.data = IF r = "resolve"
                                       THEN ResponseData(c.batch.messageCount, now)
                                       ELSE ErrorData(r, now),
                              !.outcome = IF r = "resolve" THEN "completed" ELSE "error",
                              !.thrown = IF r = "resolve" THEN "none" ELSE r,
                              !.pending = (r # "resolve"),
                              !.pc = "setEx_last_response"])
    /\ lastEvent' = NoEvent
    /\ UNCHANGED <<now, storeVars, timerVars, nextId, obsVars>>

(* a catch block that ends with `throw error` *)
CatchRethrows(c) == TRUE

(* What the catch block does with the exception once errorData is saved: it ends  *)
(* without a throw statement, so nothing stays pending.                            *)
CatchLeavesPending(c) == FALSE

(* the last response saved with the lock's timeout instead of RESPONSE_TTL *)
paf_setEx_last_response_lockTTL(c) ==
    /\ c.pc = "setEx_last_response"
    /\ last_response' = [last_response EXCEPT ![c.lead] = setEx(PROCESSING_TIMEOUT, Stringify(c.data))]
    /\ LET c2 == [c EXCEPT !.savedAt = now,
                           !.pending = c.pending /\ CatchLeavesPending(c),
                           !.pc = "cleanup_del"]
       IN /\ Become(c, c2)
          /\ lastEvent' = Event("saved", c2)
    /\ UNCHANGED <<now, messages, processing, batch_start, timerKey, timerVars,
                   nextId, obsVars>>

(* setEx(last_response, RESPONSE_TTL, ...) of the try block or of the catch block  *)
paf_setEx_last_response(c) ==
    /\ c.pc = "setEx_last_response"
    /\ last_response' = [last_response EXCEPT ![c.lead] = setEx(RESPONSE_TTL, Stringify(c.data))]
    /\ LET c2 == [c EXCEPT !.savedAt = now,
                           !.pending = c.pending /\ CatchLeavesPending(c),
                           !.pc = "cleanup_del"]
       IN /\ Become(c, c2)
          /\ lastEvent' = Event("saved", c2)
    /\ UNCHANGED <<now, messages, processing, batch_start, timerKey, timerVars,
                   nextId, obsVars>>

(* cleanupFlow without the del of batch_start *)
cleanupFlow_del_keepsWindow(c) ==
    /\ c.pc = "cleanup_del"
    /\ messages' = [messages EXCEPT ![c.lead] = <<>>]
    /\ timerKey' = [timerKey EXCEPT ![c.lead] = Absent]
    /\ processing' = [processing EXCEPT ![c.lead] = Absent]
    /\ arrived' = [arrived EXCEPT ![c.lead] = <<>>]
    /\ flow' = [flow EXCEPT ![c.lead] = NoFlow]
    /\ Become(c, [c EXCEPT !.pc = "cleanup_timers"])
    /\ lastEvent' = Event("deleted", [c EXCEPT !.pc = "cleanup_timers"])
    /\ UNCHANGED <<now, batch_start, last_response, timerVars, nextId, delivered>>

(* cleanupFlow deleting the four keys of every lead *)
cleanupFlow_del_everyLead(c) ==
    /\ c.pc = "cleanup_del"
    /\ messages' = [l \in AllLeads |-> <<>>]
    /\ timerKey' = [l \in AllLeads |-> Absent]
    /\ batch_start' = [l \in AllLeads |-> Absent]
    /\ processing' = [l \in AllLeads |-> Absent]
    /\ arrived' = [l \in AllLeads |-> <<>>]
    /\ flow' = [l \in AllLeads |-> NoFlow]
    /\ Become(c, [c EXCEPT !.pc = "cleanup_timers"])
    /\ lastEvent' = Event("deleted", [c EXCEPT !.pc = "cleanup_timers"])
    /\ UNCHANGED <<now, last_response, timerVars, nextId, delivered>>

(* cleanupFlow: the four del commands, sent together on the instance's connection *)
cleanupFlow_del(c) ==
    /\ c.pc = "cleanup_del"
    /\ messages' = [messages EXCEPT ![c.lead] = <<>>]
    /\ timerKey' = [timerKey EXCEPT ![c.lead] = Absent]
    /\ batch_start' = [batch_start EXCEPT ![c.lead] = Absent]
    /\ processing' = [processing EXCEPT ![c.lead] = Absent]
    /\ arrived' = [arrived EXCEPT ![c.lead] = <<>>]
    /\ flow' = [flow EXCEPT ![c.lead] = NoFlow]
    /\ Become(c, [c EXCEPT !.pc = "cleanup_timers"])
    /\ lastEvent' = Event("deleted", [c EXCEPT !.pc = "cleanup_timers"])
    /\ UNCHANGED <<now, last_response, timerVars, nextId, delivered>>

(* cleanupFlow when other processes use the store: the four dels of the Promise.all *)
(* are executed in the order sent, and commands of other connections can be         *)
(* executed between them.                                                           *)
cleanupFlow_del_messages(c) ==
    /\ c.pc = "cleanup_del"
    /\ messages' = [messages EXCEPT ![c.lead] = <<>>]
    /\ arrived' = [arrived EXCEPT ![c.lead] = <<>>]
    /\ flow' = [flow EXCEPT ![c.lead] = NoFlow]
    /\ Become(c, [c EXCEPT !.pc = "cleanup_del_timer"])
    /\ lastEvent' = Event("deleted", [c EXCEPT !.pc = "cleanup_del_timer"])
    /\ UNCHANGED <<now, processing, batch_start, timerKey, last_response, timerVars,
                   nextId, delivered>>

cleanupFlow_del_timer(c) ==
    /\ c.pc = "cleanup_del_timer"
    /\ timerKey' = [timerKey EXCEPT ![c.lead] = Absent]
    /\ Become(c, [c EXCEPT !.pc = "cleanup_del_batch_start"])
    /\ lastEvent' = NoEvent
    /\ UNCHANGED <<now, messages, processing, batch_start, last_response, timerVars,
                   nextId, obsVars>>

cleanupFlow_del_batch_start(c) ==
    /\ c.pc = "cleanup_del_batch_start"
    /\ batch_start' = [batch_start EXCEPT ![c.lead] = Absent]
    /\ Become(c, [c EXCEPT !.pc = "cleanup_del_processing"])
    /\ lastEvent' = NoEvent
    /\ UNCHANGED <<now, messages, processing, timerKey, last_response, timerVars,
                   nextId, obsVars>>

cleanupFlow_del_processing(c) ==
    /\ c.pc = "cleanup_del_processing"
    /\ processing' = [processing EXCEPT ![c.lead] = Absent]
    /\ Become(c, [c EXCEPT !.pc = "cleanup_timers"])
    /\ lastEvent' = NoEvent
    /\ UNCHANGED <<now, messages, batch_start, timerKey, last_response, timerVars,
                   nextId, obsVars>>

(* cleanupFlow after its await: the in-memory timer is cleared; processAndCloseFlow *)
(* is over.  With an exception still pending processAndCloseFlow rejects, and so    *)
(* does the addMessage or the timer callback that awaits it; otherwise a timer      *)
(* callback ends and addMessage goes on to its final lLen.                          *)
cleanupFlow_timers(c) ==
    /\ c.pc = "cleanup_timers"
    /\ IF timers[c.inst][c.lead] # 0
       THEN ClearTimer(c.inst, c.lead)
       ELSE UNCHANGED timerVars
    /\ IF c.kind # "add" \/ c.pending
       THEN Leave(c)
       ELSE Become(c, [c EXCEPT !.pc = "ret_lLen"])
    /\ lastEvent' = IF c.pending
                    THEN Event("reject", [c EXCEPT !.pc = "rejected"])
                    ELSE Event("closed", [c EXCEPT !.pc = "closed"])
    /\ UNCHANGED <<now, storeVars, nextId, obsVars>>

(* processAndCloseFlow is called on its own (setNX sent).  A run called right after *)
(* a run that found the queue empty, nothing else having run on the lead, carries   *)
(* the next number; every other run is number 1.                                    *)
RunNumber ==
    IF /\ lastEvent.type = "closed" /\ lastEvent.call.kind = "run"
       /\ lastEvent.call.outcome = "empty"
       /\ ~lastEvent.call.sawAdd /\ ~lastEvent.call.sawFire
    THEN lastEvent.call.id + 1 ELSE 1

processAndCloseFlow(i, l, maxRuns) ==
    /\ RunNumber <= maxRuns
    /\ \A c \in calls : c.kind # "run"
    /\ calls' = {Seen(d, "fire", l) : d \in calls}
                  \cup {NewCall("run", RunNumber, i, l, "setNX", calls)}
    /\ lastEvent' = NoEvent
    /\ UNCHANGED <<now, storeVars, timerVars, nextId, obsVars>>

(* A timer set by scheduleMessageProcessing expires: its callback deletes the map  *)
(* entry of the lead and calls processAndCloseFlow (setNX sent).                   *)
TimerFire(t) ==
    /\ t \in armed
    /\ t.fireAt <= now
    /\ armed' = armed \ {t}
    /\ timers' = [timers EXCEPT ![t.inst][t.lead] = 0]
    /\ calls' = {Seen(d, "fire", t.lead) : d \in calls}
                  \cup {NewCall("fire", t.id, t.inst, t.lead, "setNX", calls)}
    /\ lastEvent' = NoEvent
    /\ UNCHANGED <<now, storeVars, nextId, obsVars>>

(* ms milliseconds pass, unless a timer is due; Redis drops the keys whose TTL has  *)
(* run out.  Time passes whatever the calls in flight are waiting for.              *)
Pass(ms, maxTime) ==
    /\ now + ms <= maxTime
    /\ \A t \in armed : t.fireAt > now
    /\ now' = now + ms
    /\ processing' = [l \in AllLeads |-> Purge(processing[l], now')]
    /\ batch_start' = [l \in AllLeads |-> Purge(batch_start[l], now')]
    /\ timerKey' = [l \in AllLeads |-> Purge(timerKey[l], now')]
    /\ last_response' = [l \in AllLeads |-> Purge(last_response[l], now')]
    /\ lastEvent' = NoEvent
    /\ UNCHANGED <<messages, timerVars, calls, nextId, obsVars>>

(* time in steps of TickMs *)
Tick(maxTicks) == Pass(TickMs, maxTicks * TickMs)

(* time in steps of MESSAGE_DELAY, for the runs that last several timer delays *)
Wait(maxWaits) == Pass(MESSAGE_DELAY, maxWaits * MESSAGE_DELAY)

---------------------------------------------------------------------------
(* Store failures: the command a call is waiting for is rejected by the client     *)
(* without having been executed.  At most one command fails in a call.              *)
AddAwaits == {"haf_lLen", "haf_existsTimer", "haf_existsProcessing", "lPush", "spi_lLen",
              "spi_get", "sch_get", "sch_setEx_batch_start", "sch_setEx_timer", "ret_lLen"}

(* a command awaited by addMessage, hasActiveFlow, shouldProcessImmediately or      *)
(* scheduleMessageProcessing fails: no try block around it, addMessage rejects      *)
StoreFault_add(c) ==
    /\ c.kind = "add" /\ c.pc \in AddAwaits /\ c.failed = "none"
    /\ Leave(c)
    /\ lastEvent' = Event("reject", [c EXCEPT !.failed = c.pc, !.pending = TRUE,
                                              !.pc = "rejected"])
    /\ UNCHANGED <<now, storeVars, timerVars, nextId, obsVars>>

(* setNX, expire, lRange or the setEx of responseData fails inside the try block:   *)
(* the catch block builds errorData from the Error and sends its setEx              *)
StoreFault_try(c) ==
    /\ c.failed = "none"
    /\ \/ c.pc \in {"setNX", "expire", "lRange"}
       \/ c.pc = "setEx_last_response" /\ c.outcome = "completed"
    /\ Become(c, [c EXCEPT !.failed = c.pc, !.thrown = "Error", !.outcome = "error",
                           !.data = ErrorData("Error", now), !.pending = TRUE,
                           !.pc = "setEx_last_response"])
    /\ lastEvent' = NoEvent
    /\ UNCHANGED <<now, storeVars, timerVars, nextId, obsVars>>

(* the setEx of errorData fails inside the catch block: the finally block runs      *)
(* cleanupFlow with the new exception pending                                       *)
StoreFault_catch(c) ==
    /\ c.failed = "none"
    /\ c.pc = "setEx_last_response" /\ c.outcome = "error"
    /\ Become(c, [c EXCEPT !.failed = c.pc, !.pending = TRUE, !.pc = "cleanup_del"])
    /\ lastEvent' = NoEvent
    /\ UNCHANGED <<now, storeVars, timerVars, nextId, obsVars>>

(* one del of cleanupFlow's Promise.all fails, the other three are executed: the    *)
(* await throws, the timer is not cleared and processAndCloseFlow rejects           *)
StoreFault_cleanup(c) ==
    /\ c.failed = "none"
    /\ c.pc = "cleanup_del"
    /\ \E k \in {"messages", "timer", "batch_start", "processing"} :
          /\ messages' = [messages EXCEPT ![c.lead] = IF k = "messages" THEN @ ELSE <<>>]
          /\ arrived' = [arrived EXCEPT ![c.lead] = IF k = "messages" THEN @ ELSE <<>>]
          /\ flow' = [flow EXCEPT ![c.lead] = IF k = "messages" THEN @ ELSE NoFlow]
          /\ timerKey' = [timerKey EXCEPT ![c.lead] = IF k = "timer" THEN @ ELSE Absent]
          /\ batch_start' = [batch_start EXCEPT
                                ![c.lead] = IF k = "batch_start" THEN @ ELSE Absent]
          /\ processing' = [processing EXCEPT
                               ![c.lead] = IF k = "processing" THEN @ ELSE Absent]
    /\ Leave(c)
    /\ lastEvent' = Event("reject", [c EXCEPT !.failed = c.pc, !.pending = TRUE,
                                              !.pc = "rejected"])
    /\ UNCHANGED <<now, last_response, timerVars, nextId, delivered>>

StoreFault(c) ==
    \/ StoreFault_add(c)
    \/ StoreFault_try(c)
    \/ StoreFault_catch(c)
    \/ StoreFault_cleanup(c)

---------------------------------------------------------------------------
(* The process of instance i dies while one of its processAndCloseFlow calls holds *)
(* the lock it got from setNX: every call and timer of the instance is gone with    *)
(* the timers map, the keys stay in Redis.  The instance then starts again.         *)
Crash(i) ==
    /\ \E c \in calls :
          /\ c.inst = i /\ c.acquired /\ c.pc \in {"expire", "lRange", "callback",
                                                    "setEx_last_response", "cleanup_del"}
          /\ lastEvent' = Event("crash", c)
    /\ calls' = {c \in calls : c.inst # i}
    /\ armed' = {t \in armed : t.inst # i}
    /\ timers' = [timers EXCEPT ![i] = [l \in AllLeads |-> 0]]
    /\ UNCHANGED <<now, storeVars, nextId, obsVars>>

---------------------------------------------------------------------------
(* The status queries.  null is what get returns for a key that does not exist.    *)
Null == [null |-> TRUE]

StatusData(l) ==
    [lead_id |-> l, messages_in_batch |-> 0, is_processing |-> FALSE,
     batch_started_at |-> Null, last_response |-> Null]

QueriesInFlight(k) == {c \in calls : c.kind = k}

FreeQueryId(k) == CHOOSE n \in 1..(Cardinality(QueriesInFlight(k)) + 1) :
                      \A c \in QueriesInFlight(k) : c.id # n

(* getProcessingStatus is called: its lLen is sent *)
getProcessingStatus(i, l, maxQueries) ==
    /\ Cardinality(QueriesInFlight("status") \cup QueriesInFlight("last")) < maxQueries
    /\ calls' = calls \cup {[NewCall("status", FreeQueryId("status"), i, l, "gps_lLen", calls)
                                 EXCEPT !.data = StatusData(l)]}
    /\ lastEvent' = NoEvent
    /\ UNCHANGED <<now, storeVars, timerVars, nextId, obsVars>>

gps_lLen(c) ==
    /\ c.pc = "gps_lLen"
    /\ Become(c, [c EXCEPT !.data.messages_in_batch = Len(messages[c.lead]),
                           !.pc = "gps_get_last_response"])
    /\ lastEvent' = NoEvent
    /\ UNCHANGED <<now, storeVars, timerVars, nextId, obsVars>>

gps_get_last_response(c) ==
    /\ c.pc = "gps_get_last_response"
    /\ Become(c, [c EXCEPT !.data.last_response =
                               IF last_response[c.lead].present
                               THEN Parse(last_response[c.lead].value) ELSE Null,
                           !.pc = "gps_exists"])
    /\ lastEvent' = NoEvent
    /\ UNCHANGED <<now, storeVars, timerVars, nextId, obsVars>>

gps_exists(c) ==
    /\ c.pc = "gps_exists"
    /\ Become(c, [c EXCEPT !.data.is_processing = processing[c.lead].present,
                           !.pc = "gps_get_batch_start"])
    /\ lastEvent' = NoEvent
    /\ UNCHANGED <<now, storeVars, timerVars, nextId, obsVars>>

(* the last read resolves and getProcessingStatus returns *)
gps_get_batch_start(c) ==
    /\ c.pc = "gps_get_batch_start"
    /\ Leave(c)
    /\ lastEvent' = Event("answer",
                          [c EXCEPT !.data.batch_started_at =
                                        IF batch_start[c.lead].present
                                        THEN [iso |-> batch_start[c.lead].value] ELSE Null,
                                    !.pc = "returned"])
    /\ UNCHANGED <<now, storeVars, timerVars, nextId, obsVars>>

(* getLastResponse is called: its get is sent *)
getLastResponse(i, l, maxQueries) ==
    /\ Cardinality(QueriesInFlight("status") \cup QueriesInFlight("last")) < maxQueries
    /\ calls' = calls \cup {NewCall("last", FreeQueryId("last"), i, l, "glr_get", calls)}
    /\ lastEvent' = NoEvent
    /\ UNCHANGED <<now, storeVars, timerVars, nextId, obsVars>>

(* a get that also removes the key *)
glr_get_consumes(c) ==
    /\ c.pc = "glr_get"
    /\ Leave(c)
    /\ last_response' = [last_response EXCEPT ![c.lead] = Absent]
    /\ lastEvent' = Event("answer",
                          [c EXCEPT !.data = IF last_response[c.lead].present
                                             THEN Parse(last_response[c.lead].value)
                                             ELSE Null,
                                    !.pc = "returned"])
    /\ UNCHANGED <<now, messages, processing, batch_start, timerKey, timerVars,
                   nextId, obsVars>>

(* the get resolves and getLastResponse returns the parsed value, or null *)
glr_get(c) ==
    /\ c.pc = "glr_get"
    /\ Leave(c)
    /\ lastEvent' = Event("answer",
                          [c EXCEPT !.data = IF last_response[c.lead].present
                                             THEN Parse(last_response[c.lead].value)
                                             ELSE Null,
                                    !.pc = "returned"])
    /\ UNCHANGED <<now, storeVars, timerVars, nextId, obsVars>>

QueryStepOf(c) ==
    \/ gps_lLen(c)
    \/ gps_get_last_response(c)
    \/ gps_exists(c)
    \/ gps_get_batch_start(c)
    \/ glr_get(c)

---------------------------------------------------------------------------
StepOf(c) ==
    \/ haf_lLen(c)
    \/ haf_existsTimer(c)
    \/ haf_existsProcessing(c)
    \/ add_lPush(c)
    \/ spi_lLen(c)
    \/ spi_get(c)
    \/ sch_get(c)
    \/ sch_setEx_batch_start(c)
    \/ sch_setEx_timer(c)
    \/ ret_lLen(c)
    \/ paf_setNX(c)
    \/ paf_expire(c)
    \/ paf_lRange(c)
    \/ paf_callback(c)
    \/ paf_setEx_last_response(c)
    \/ cleanupFlow_del(c)
    \/ cleanupFlow_timers(c)

(* A step of a call when several processes share the store *)
SharedStepOf(c) ==
    \/ c.pc # "cleanup_del" /\ StepOf(c)
    \/ cleanupFlow_del_messages(c)
    \/ cleanupFlow_del_timer(c)
    \/ cleanupFlow_del_batch_start(c)
    \/ cleanupFlow_del_processing(c)

(* The arrivals of a run come within its first MESSAGE_DELAY; timers and drains    *)
(* go on after them.                                                                *)
Early == now <= MESSAGE_DELAY

(* The step leaves no call with a rejected Processing Callback: the callback the  *)
(* caller supplies always resolves.                                                 *)
Resolves == \A d \in calls' : d.thrown = "none"

(* Any interleaving of up to MaxInFlight addMessage calls and of the timers.       *)
Next ==
    \/ \E i \in Instances, l \in Leads : addMessage(i, l, MaxMsgs, MaxInFlight)
    \/ \E c \in calls : StepOf(c)
    \/ \E t \in armed : TimerFire(t)
    \/ Tick(MaxTicks)

Spec == Init /\ [][Next]_vars

(* addMessage calls one after the other, long enough for three timers in a row,    *)
(* with a Processing Callback that always resolves.                                 *)
NextRelay ==
    \/ \E i \in Instances, l \in Leads : addMessage(i, l, MaxMsgsRelay, 1)
    \/ \E c \in calls : StepOf(c) /\ Resolves
    \/ \E t \in armed : TimerFire(t)
    \/ Wait(MaxWaitsRelay)

SpecRelay == Init /\ [][NextRelay]_vars

(* A burst: enough addMessage calls, one after the other and all begun within the *)
(* first TickMs, to reach MAX_BATCH_SIZE.                                           *)
NextBurst ==
    \/ \E i \in Instances, l \in Leads :
          /\ now < TickMs
          /\ addMessage(i, l, MaxMsgsBurst, 1)
    \/ \E c \in calls : StepOf(c)
    \/ \E t \in armed : TimerFire(t)
    \/ Tick(MaxTicksBurst)

SpecBurst == Init /\ [][NextBurst]_vars

(* Store latency: time may pass at any await of a call.                            *)
NextLatency ==
    \/ \E i \in Instances, l \in Leads : addMessage(i, l, MaxMsgsLatency, 1)
    \/ \E c \in calls : StepOf(c)
    \/ \E t \in armed : TimerFire(t)
    \/ Tick(MaxTicksLatency)

SpecLatency == Init /\ [][NextLatency]_vars

(* The state in which the k-th of k addMessage calls of instance i for lead l has    *)
(* returned: the calls began ArrivalEvery ticks apart from t = 0, one after the      *)
(* other, and the store answered each command within the millisecond.  The first     *)
(* call wrote batch_start at 0; each call appended its event, cancelled the timer of *)
(* the call before, armed its own and renewed the timer marker; no timer has fired.  *)
AfterArrivals(i, l, k) ==
    LET t == (k - 1) * ArrivalEvery * TickMs
    IN /\ now = t
       /\ messages = [f \in AllLeads |->
                         IF f = l THEN [j \in 1..k |-> Stringify(MessageData(k + 1 - j))]
                         ELSE <<>>]
       /\ processing = [f \in AllLeads |-> Absent]
       /\ batch_start = [f \in AllLeads |->
                            IF f = l THEN Key(0, (MAX_WAIT_TIME \div 1000) * 1000) ELSE Absent]
       /\ timerKey = [f \in AllLeads |->
                         IF f = l
                         THEN Key("active", t + ((MESSAGE_DELAY + TIMER_MARKER_MARGIN) \div 1000) * 1000)
                         ELSE Absent]
       /\ last_response = [f \in AllLeads |-> Absent]
       /\ timers = [n \in AllInstances |->
                       [f \in AllLeads |-> IF n = i /\ f = l THEN k ELSE 0]]
       /\ armed = {[id |-> k, inst |-> i, lead |-> l, fireAt |-> t + MESSAGE_DELAY]}
       /\ calls = {}
       /\ nextId = k + 1
       /\ arrived = [f \in AllLeads |-> IF f = l THEN [j \in 1..k |-> j] ELSE <<>>]
       /\ delivered = [j \in 1..k |-> 0]
       /\ flow = [f \in AllLeads |->
                     IF f = l THEN [first |-> 0, last |-> t, spaced |-> TRUE] ELSE NoFlow]
       /\ lastEvent = Event("return",
                            [NewCall("add", k, i, l, "returned", {})
                                EXCEPT !.isNewFlow = (k = 1), !.hasTimer = (k > 1),
                                       !.messageCount = k, !.messagesInBatch = k])

(* A slow flow, taken up after its first ArrivedSlow arrivals, one every             *)
(* ArrivalEvery ticks and each answered at once, of which the last has just          *)
(* returned.  AfterArrivals(i, l, 1) is reached from Init by addMessage and the      *)
(* steps of its call, and AfterArrivals(i, l, k + 1) from AfterArrivals(i, l, k) by  *)
(* ArrivalEvery ticks, addMessage and the steps of its call.                         *)
InitSlow == \E i \in Instances, l \in Leads : AfterArrivals(i, l, ArrivedSlow)

(* The flow goes on past MAX_WAIT_TIME: addMessage calls one after the other at any  *)
(* moment; a timer fires and time passes at any await of a call.                     *)
NextSlow ==
    \/ \E i \in Instances, l \in Leads : addMessage(i, l, MaxMsgsSlow, 1)
    \/ \E c \in calls : StepOf(c)
    \/ \E t \in armed : TimerFire(t)
    \/ Tick(MaxTicksSlow)

SpecSlow == InitSlow /\ [][NextSlow]_vars

(* The instance sends its commands on one connection, and the replies come back   *)
(* in the order of the commands.  Once the dels of a cleanupFlow are executed, a    *)
(* call of that instance resumes at most once before that cleanupFlow does: on a    *)
(* reply that comes in the same chunk as those of the dels.  Timers and new         *)
(* addMessage calls may still come in between.                                      *)
InOrder(c) ==
    \A e \in calls \ {c} :
        e.inst = c.inst /\ e.pc = "cleanup_timers" => <<c.kind, c.id>> \notin e.overtook

(* addMessage calls one after the other, timers and drains overlapping them, the    *)
(* replies in order.                                                                *)
NextOrdered ==
    \/ \E i \in Instances, l \in Leads : Early /\ addMessage(i, l, MaxMsgsOrdered, 1)
    \/ \E c \in calls : InOrder(c) /\ StepOf(c)
    \/ \E t \in armed : TimerFire(t)
    \/ Wait(MaxWaitsOrdered)

SpecOrdered == Init /\ [][NextOrdered]_vars

(* Status queries at any moment of a run of addMessage calls, timers and drains.  *)
NextQuery ==
    \/ \E i \in Instances, l \in Leads : Early /\ addMessage(i, l, MaxMsgsQuery, 1)
    \/ \E c \in calls : StepOf(c)
    \/ \E t \in armed : TimerFire(t)
    \/ Wait(MaxWaitsQuery)
    \/ \E i \in Instances, l \in Leads : getProcessingStatus(i, l, MaxQueries)
    \/ \E i \in Instances, l \in Leads : getLastResponse(i, l, MaxQueries)
    \/ \E c \in calls : QueryStepOf(c)

SpecQuery == Init /\ [][NextQuery]_vars

(* processAndCloseFlow run on its own, on an empty queue or during a flow.          *)
NextDrain ==
    \/ \E i \in Instances, l \in Leads : Early /\ addMessage(i, l, MaxMsgsDrain, 1)
    \/ \E c \in calls : StepOf(c)
    \/ \E t \in armed : TimerFire(t)
    \/ Wait(MaxWaitsDrain)
    \/ \E i \in Instances, l \in Leads : processAndCloseFlow(i, l, MaxRuns)

SpecDrain == Init /\ [][NextDrain]_vars

(* A burst of addMessage calls, one after the other and all within one              *)
(* MESSAGE_DELAY (no timer becomes due), in which store commands fail.              *)
NextFault ==
    \/ \E i \in Instances, l \in Leads : addMessage(i, l, MaxMsgsFault, 1)
    \/ \E c \in calls : StepOf(c)
    \/ \E c \in calls : StoreFault(c)

SpecFault == Init /\ [][NextFault]_vars

(* addMessage calls one after the other, timers, and crashes of the process during *)
(* a drain.                                                                         *)
NextCrash ==
    \/ \E i \in Instances, l \in Leads : addMessage(i, l, MaxMsgsCrash, 1)
    \/ \E c \in calls : StepOf(c)
    \/ \E t \in armed : TimerFire(t)
    \/ Tick(MaxTicksCrash)
    \/ \E i \in Instances : Crash(i)

SpecCrash == Init /\ [][NextCrash]_vars

(* Two overlapping addMessage calls followed by a third, and the timers, with a    *)
(* Processing Callback that always resolves.                                        *)
NextOverlap ==
    \/ \E i \in Instances, l \in Leads :
          addMessage(i, l, MaxMsgsOverlap, MaxInFlightOverlap)
    \/ \E c \in calls : StepOf(c) /\ Resolves
    \/ \E t \in armed : TimerFire(t)
    \/ Wait(MaxWaitsOverlap)

SpecOverlap == Init /\ [][NextOverlap]_vars

(* Two processes on one store behind a round-robin balancer: the addMessage calls   *)
(* of a lead come one after the other, the n-th going to process ((n - 1) mod 2) + 1, *)
(* the last one comes before the last timer delay of the run begins, and the       *)
(* Processing Callback the caller supplies always resolves.                         *)
Balancer(n) == ((n - 1) % Cardinality(AllInstances)) + 1

NextPair ==
    \/ \E l \in Leads :
          /\ now < MaxWaitsPair * MESSAGE_DELAY
          /\ addMessage(Balancer(nextId), l, MaxMsgsPair, 1)
    \/ \E c \in calls : SharedStepOf(c) /\ Resolves
    \/ \E t \in armed : TimerFire(t)
    \/ Wait(MaxWaitsPair)

SpecPair == Init /\ [][NextPair]_vars

(* One process, two leads: the addMessage calls of a lead come one after the other, *)
(* and the calls and timers of the two leads interleave in every way.               *)
NextDuo ==
    \/ \E i \in Instances, l \in AllLeads :
          /\ Early
          /\ \A d \in AddsInFlight : d.lead # l
          /\ addMessage(i, l, MaxMsgsDuo, Cardinality(AllLeads))
    \/ \E c \in calls : StepOf(c)
    \/ \E t \in armed : TimerFire(t)
    \/ Wait(MaxWaitsDuo)

SpecDuo == Init /\ [][NextDuo]_vars

---------------------------------------------------------------------------
(* The webhook route (routes/kommo.ts).  It does not use MessageBatchManager: it    *)
(* has its own hasActiveFlow, shouldProcessImmediately, scheduleMessageProcessing   *)
(* and processAndCloseFlow, written on the same five keys and with the same values  *)
(* of MESSAGE_DELAY, MAX_BATCH_SIZE and MAX_WAIT_TIME (kommo.ts:12-14), a lock of   *)
(* 60 s and a last_response kept 300 s.  It keeps no map of timers: the handle of   *)
(* setTimeout is written to lead:<id>:timer as a string.  A call of the handler is  *)
(* of kind "hook", a callback of one of its timers of kind "rfire".                 *)

(* what parseInt gives for a string that does not start with a number *)
NaN == -1

(* timerId.toString(): setTimeout returns a Timeout object, which has no toString   *)
(* of its own, so Object.prototype.toString answers                                 *)
TimeoutToString(id) == "[object Object]"

(* parseInt(existingTimer), for the strings the route can find under the timer key  *)
ParseInt(str) ==
    IF \E n \in 0..MaxMsgsHook + MaxMsgsDebounce : ToString(n) = str
    THEN CHOOSE n \in 0..MaxMsgsHook + MaxMsgsDebounce : ToString(n) = str
    ELSE NaN

(* clearTimeout(handle): a value that is no timer of the process is ignored         *)
clearTimeout(i, handle) == armed' = {t \in armed : ~(t.inst = i /\ t.id = handle)}

(* the outputs of processMessageBatch (the assistant's answer) *)
RouteOutputs == {"aiResponse", ""}

(* responseData of the route's processAndCloseFlow *)
RouteResponseData(out, count, t) ==
    [response |-> out, processed_messages |-> count, processed_at |-> t,
     status |-> "completed"]

(* a property read of a parsed last_response, undefined when it has no such field,  *)
(* and of null (lastResponse?.response)                                             *)
Undefined == [defined |-> FALSE]
Field(obj, name) ==
    IF obj = Null THEN Undefined
    ELSE IF name \in DOMAIN obj THEN [defined |-> TRUE, value |-> obj[name]]
    ELSE Undefined

(* a || b takes b when a is falsy: undefined, the empty string, the number 0 *)
FalsyString(a) == ~a.defined \/ a.value = ""
FalsyNumber(a) == ~a.defined \/ a.value = 0

(* the body of res.json on the immediate path (kommo.ts:269-274) *)
ImmediateResponse(lastResponse) ==
    [message |-> IF FalsyString(Field(lastResponse, "response"))
                 THEN "Procesado correctamente"
                 ELSE Field(lastResponse, "response").value,
     processed_messages |-> IF FalsyNumber(Field(lastResponse, "processed_messages"))
                            THEN 0
                            ELSE Field(lastResponse, "processed_messages").value,
     processing_mode |-> "immediate_close", status |-> "flow_closed"]

(* the body of res.json on the queued path (kommo.ts:283-289) *)
QueuedResponse(l, hasActive, messagesInBatch) ==
    [message |-> "Mensaje recibido y agregado al lote", lead_id |-> l,
     processing_mode |-> IF hasActive THEN "batch_continue" ELSE "batch_new",
     messages_in_batch |-> messagesInBatch, status |-> "flow_active"]

HooksInFlight == {c \in calls : c.kind = "hook"}

(* message[add][0][attachment][type] of a request: absent for a text message *)
AttachmentTypes == {"voice", "picture", "file"}

(* POST /webhook/ arrives with a message of type ty: kommo.lead.find is called.     *)
webhook(i, l, ty, maxMsgs, maxHooks) ==
    /\ nextId <= maxMsgs
    /\ Cardinality(HooksInFlight) < maxHooks
    /\ calls' = calls \cup
          {[NewCall("hook", nextId, i, l, "route_find", calls)
               EXCEPT !.msg = [MessageData(nextId) EXCEPT !.message_type = ty]]}
    /\ nextId' = nextId + 1
    /\ delivered' = Append(delivered, 0)
    /\ lastEvent' = NoEvent
    /\ UNCHANGED <<now, storeVars, timerVars, arrived, flow>>

(* the catch block of the handler: res.status(500) *)
RouteInternalError(c) ==
    /\ Leave(c)
    /\ lastEvent' = Event("error", [c EXCEPT !.thrown = "Error", !.pc = "answered"])
    /\ UNCHANGED <<now, storeVars, timerVars, nextId, obsVars>>

(* kommo.lead.find settles.  It rejects, or resolves with undefined (reading        *)
(* leadData.pipeline_id then throws): the catch block answers 500.  A lead outside  *)
(* the pipeline or the status is answered 400.  In both cases nothing is stored.    *)
(* Otherwise an attachment is handed to processVoiceMessage, processPictureMessage  *)
(* or processFileMessage, and for a text message lLen of hasActiveFlow is sent.     *)
route_find(c) ==
    /\ c.pc = "route_find"
    /\ \E leadData \in {"inPipeline", "outside", "undefined", "rejects"} :
          IF leadData \in {"undefined", "rejects"}
          THEN RouteInternalError(c)
          ELSE IF leadData = "outside"
          THEN /\ Leave(c)
               /\ lastEvent' = Event("invalid", [c EXCEPT !.pc = "answered"])
               /\ UNCHANGED <<now, storeVars, timerVars, nextId, obsVars>>
          ELSE /\ Become(c, [c EXCEPT !.pc = IF c.msg.message_type \in AttachmentTypes
                                              THEN "route_process"
                                              ELSE "route_haf_lLen"])
               /\ lastEvent' = NoEvent
               /\ UNCHANGED <<now, storeVars, timerVars, nextId, obsVars>>

(* process*Message settles: its output is the text of the message and lLen of       *)
(* hasActiveFlow is sent, or it rejects and the catch block answers 500.            *)
route_process(c) ==
    /\ c.pc = "route_process"
    /\ \E resolves \in BOOLEAN :
          IF resolves
          THEN /\ Become(c, [c EXCEPT !.msg.message = <<c.msg.message_type, c.id>>,
                                      !.pc = "route_haf_lLen"])
               /\ lastEvent' = NoEvent
               /\ UNCHANGED <<now, storeVars, timerVars, nextId, obsVars>>
          ELSE RouteInternalError(c)

route_haf_lLen(c) ==
    /\ c.pc = "route_haf_lLen"
    /\ Become(c, [c EXCEPT !.messageCount = Len(messages[c.lead]),
                           !.pc = "route_haf_existsTimer"])
    /\ lastEvent' = NoEvent
    /\ UNCHANGED <<now, storeVars, timerVars, nextId, obsVars>>

route_haf_existsTimer(c) ==
    /\ c.pc = "route_haf_existsTimer"
    /\ Become(c, [c EXCEPT !.hasTimer = timerKey[c.lead].present,
                           !.pc = "route_haf_existsProcessing"])
    /\ lastEvent' = NoEvent
    /\ UNCHANGED <<now, storeVars, timerVars, nextId, obsVars>>

(* hasActive is kept in the call as its negation, isNewFlow *)
route_haf_existsProcessing(c) ==
    /\ c.pc = "route_haf_existsProcessing"
    /\ Become(c, [c EXCEPT !.isNewFlow = ~(c.messageCount > 0 \/ c.hasTimer
                                            \/ processing[c.lead].present),
                           !.pc = "route_lPush"])
    /\ lastEvent' = NoEvent
    /\ UNCHANGED <<now, storeVars, timerVars, nextId, obsVars>>

route_lPush(c) ==
    /\ c.pc = "route_lPush"
    /\ messages' = [messages EXCEPT ![c.lead] = lPush(@, Stringify(c.msg))]
    /\ arrived' = [arrived EXCEPT ![c.lead] = Append(@, c.msg.message_id)]
    /\ flow' = [flow EXCEPT ![c.lead] =
                  IF Len(messages[c.lead]) = 0
                  THEN [first |-> now, last |-> now, spaced |-> TRUE]
                  ELSE [first |-> @.first, last |-> now,
                        spaced |-> @.spaced /\ now - @.last < MESSAGE_DELAY]]
    /\ Become(c, [c EXCEPT !.pc = "route_spi_lLen"])
    /\ lastEvent' = Event("lPush", c)
    /\ UNCHANGED <<now, processing, batch_start, timerKey, last_response, timerVars,
                   nextId, delivered>>

route_spi_lLen(c) ==
    /\ c.pc = "route_spi_lLen"
    /\ Become(c, [c EXCEPT !.messageCount = Len(messages[c.lead]),
                           !.pc = "route_spi_get"])
    /\ lastEvent' = NoEvent
    /\ UNCHANGED <<now, storeVars, timerVars, nextId, obsVars>>

(* get(batch_start) of shouldProcessImmediately resolves: the handler enters        *)
(* processAndCloseFlow (setNX sent) or scheduleMessageProcessing (get of the timer  *)
(* key sent)                                                                        *)
route_spi_get(c) ==
    /\ c.pc = "route_spi_get"
    /\ LET shouldProcess ==
               \/ c.messageCount >= MAX_BATCH_SIZE
               \/ /\ batch_start[c.lead].present
                  /\ now - batch_start[c.lead].value >= MAX_WAIT_TIME
       IN Become(c, [c EXCEPT !.immediate = shouldProcess,
                              !.pc = IF shouldProcess THEN "route_setNX"
                                     ELSE "route_sch_get_timer"])
    /\ lastEvent' = NoEvent
    /\ UNCHANGED <<now, storeVars, timerVars, nextId, obsVars>>

(* get(timerKey) resolves: if (existingTimer) clearTimeout(parseInt(existingTimer)) *)
route_sch_get_timer(c) ==
    /\ c.pc = "route_sch_get_timer"
    /\ IF timerKey[c.lead].present /\ timerKey[c.lead].value # ""
       THEN clearTimeout(c.inst, ParseInt(timerKey[c.lead].value))
       ELSE UNCHANGED armed
    /\ Become(c, [c EXCEPT !.pc = "route_sch_get"])
    /\ lastEvent' = NoEvent
    /\ UNCHANGED <<now, storeVars, timers, nextId, obsVars>>

(* setTimeout(..., MESSAGE_DELAY) of the route *)
RouteArmTimer(c) ==
    armed' = armed \cup {[id |-> c.id, inst |-> c.inst, lead |-> c.lead,
                          fireAt |-> now + MESSAGE_DELAY]}

route_sch_get(c) ==
    /\ c.pc = "route_sch_get"
    /\ IF ~batch_start[c.lead].present
       THEN /\ Become(c, [c EXCEPT !.startValue = now,
                                   !.pc = "route_sch_setEx_batch_start"])
            /\ UNCHANGED armed
       ELSE /\ Become(c, [c EXCEPT !.pc = "route_sch_setEx_timer"])
            /\ RouteArmTimer(c)
    /\ lastEvent' = NoEvent
    /\ UNCHANGED <<now, storeVars, timers, nextId, obsVars>>

route_sch_setEx_batch_start(c) ==
    /\ c.pc = "route_sch_setEx_batch_start"
    /\ batch_start' = [batch_start EXCEPT ![c.lead] =
                          setEx(MAX_WAIT_TIME \div 1000, c.startValue)]
    /\ Become(c, [c EXCEPT !.pc = "route_sch_setEx_timer"])
    /\ RouteArmTimer(c)
    /\ lastEvent' = NoEvent
    /\ UNCHANGED <<now, messages, processing, timerKey, last_response, timers,
                   nextId, obsVars>>

route_sch_setEx_timer(c) ==
    /\ c.pc = "route_sch_setEx_timer"
    /\ timerKey' = [timerKey EXCEPT ![c.lead] =
                       setEx((MESSAGE_DELAY + TIMER_MARKER_MARGIN) \div 1000,
                             TimeoutToString(c.id))]
    /\ Become(c, [c EXCEPT !.pc = "route_ret_lLen"])
    /\ lastEvent' = NoEvent
    /\ UNCHANGED <<now, messages, processing, batch_start, last_response, timerVars,
                   nextId, obsVars>>

(* the final lLen resolves and the queued response is sent *)
route_ret_lLen(c) ==
    /\ c.pc = "route_ret_lLen"
    /\ Leave(c)
    /\ lastEvent' = Event("respond",
                          [c EXCEPT !.data = QueuedResponse(c.lead, ~c.isNewFlow,
                                                            Len(messages[c.lead])),
                                    !.messagesInBatch = Len(messages[c.lead]),
                                    !.pc = "answered"])
    /\ UNCHANGED <<now, storeVars, timerVars, nextId, obsVars>>

(* A timer of the route expires: its callback calls processAndCloseFlow (setNX sent) *)
RouteTimerFire(t) ==
    /\ t \in armed
    /\ t.fireAt <= now
    /\ armed' = armed \ {t}
    /\ calls' = calls \cup {NewCall("rfire", t.id, t.inst, t.lead, "route_setNX", calls)}
    /\ lastEvent' = NoEvent
    /\ UNCHANGED <<now, storeVars, timers, nextId, obsVars>>

(* processAndCloseFlow of the route (kommo.ts:74-134) *)
route_setNX(c) ==
    /\ c.pc = "route_setNX"
    /\ IF processing[c.lead].present
       THEN /\ Become(c, [c EXCEPT !.acquired = FALSE, !.outcome = "skipped",
                                   !.pc = "route_del_messages"])
            /\ UNCHANGED processing
       ELSE /\ processing' = [processing EXCEPT ![c.lead] = Key("1", NoTTL)]
            /\ Become(c, [c EXCEPT !.acquired = TRUE, !.pc = "route_expire"])
    /\ lastEvent' = NoEvent
    /\ UNCHANGED <<now, messages, batch_start, timerKey, last_response, timerVars,
                   nextId, obsVars>>

route_expire(c) ==
    /\ c.pc = "route_expire"
    /\ processing' = [processing EXCEPT ![c.lead] = expire(@, PROCESSING_TIMEOUT)]
    /\ Become(c, [c EXCEPT !.pc = "route_lRange"])
    /\ lastEvent' = NoEvent
    /\ UNCHANGED <<now, messages, batch_start, timerKey, last_response, timerVars,
                   nextId, obsVars>>

(* lRange resolves: an empty list returns; otherwise processMessageBatch is called *)
route_lRange(c) ==
    /\ c.pc = "route_lRange"
    /\ LET raw == lRange(messages[c.lead])
           batch == BatchResult(c.lead, raw)
           ids == {batch.messages[k].message_id : k \in 1..Len(raw)}
       IN IF Len(raw) = 0
          THEN /\ Become(c, [c EXCEPT !.outcome = "empty", !.pc = "route_del_messages"])
               /\ lastEvent' = NoEvent
               /\ UNCHANGED delivered
          ELSE /\ Become(c, [c EXCEPT !.batch = batch, !.invokedAt = now,
                                      !.pc = "route_callback"])
               /\ lastEvent' = Event("invoke", [c EXCEPT !.batch = batch,
                                                         !.invokedAt = now,
                                                         !.pc = "route_callback"])
               /\ delivered' = [n \in 1..Len(delivered) |->
                                   IF n \in ids THEN delivered[n] + 1 ELSE delivered[n]]
    /\ UNCHANGED <<now, storeVars, timerVars, nextId, arrived, flow>>

(* processMessageBatch settles: it resolves with the assistant's output, and        *)
(* responseData is built; or it rethrows what the CRM or the assistant threw, and   *)
(* the catch block builds errorData.  Either way a setEx of last_response is sent.  *)
route_callback(c) ==
    /\ c.pc = "route_callback"
    /\ \/ \E out \in RouteOutputs :
             Become(c, [c EXCEPT !.data = RouteResponseData(out, c.batch.messageCount, now),
                                 !.outcome = "completed",
                                 !.pc = "route_setEx_last_response"])
       \/ \E r \in {"Error", "other"} :
             Become(c, [c EXCEPT !.data = ErrorData(r, now), !.outcome = "error",
                                 !.thrown = r, !.pc = "route_setEx_last_response"])
    /\ lastEvent' = NoEvent
    /\ UNCHANGED <<now, storeVars, timerVars, nextId, obsVars>>

route_setEx_last_response(c) ==
    /\ c.pc = "route_setEx_last_response"
    /\ last_response' = [last_response EXCEPT ![c.lead] =
                            setEx(RESPONSE_TTL, Stringify(c.data))]
    /\ LET c2 == [c EXCEPT !.savedAt = now, !.pc = "route_del_messages"]
       IN /\ Become(c, c2)
          /\ lastEvent' = Event("saved", c2)
    /\ UNCHANGED <<now, messages, processing, batch_start, timerKey, timerVars,
                   nextId, obsVars>>

(* the finally block: four dels, each awaited before the next is sent *)
route_del_messages(c) ==
    /\ c.pc = "route_del_messages"
    /\ messages' = [messages EXCEPT ![c.lead] = <<>>]
    /\ arrived' = [arrived EXCEPT ![c.lead] = <<>>]
    /\ flow' = [flow EXCEPT ![c.lead] = NoFlow]
    /\ Become(c, [c EXCEPT !.pc = "route_del_timer"])
    /\ lastEvent' = Event("deleted", [c EXCEPT !.pc = "route_del_timer"])
    /\ UNCHANGED <<now, processing, batch_start, timerKey, last_response, timerVars,
                   nextId, delivered>>

route_del_timer(c) ==
    /\ c.pc = "route_del_timer"
    /\ timerKey' = [timerKey EXCEPT ![c.lead] = Absent]
    /\ Become(c, [c EXCEPT !.pc = "route_del_batch_start"])
    /\ lastEvent' = NoEvent
    /\ UNCHANGED <<now, messages, processing, batch_start, last_response, timerVars,
                   nextId, obsVars>>

route_del_batch_start(c) ==
    /\ c.pc = "route_del_batch_start"
    /\ batch_start' = [batch_start EXCEPT ![c.lead] = Absent]
    /\ Become(c, [c EXCEPT !.pc = "route_del_processing"])
    /\ lastEvent' = NoEvent
    /\ UNCHANGED <<now, messages, processing, timerKey, last_response, timerVars,
                   nextId, obsVars>>

(* the last del resolves: a timer callback ends here; the handler sends the get of  *)
(* last_response                                                                    *)
route_del_processing(c) ==
    /\ c.pc = "route_del_processing"
    /\ processing' = [processing EXCEPT ![c.lead] = Absent]
    /\ IF c.kind = "hook"
       THEN /\ Become(c, [c EXCEPT !.pc = "route_get_last_response"])
            /\ lastEvent' = NoEvent
       ELSE /\ Leave(c)
            /\ lastEvent' = Event("closed", [c EXCEPT !.pc = "closed"])
    /\ UNCHANGED <<now, messages, batch_start, timerKey, last_response, timerVars,
                   nextId, obsVars>>

(* get(last_response) resolves and the immediate response is sent *)
route_get_last_response(c) ==
    /\ c.pc = "route_get_last_response"
    /\ LET lastResponse == IF last_response[c.lead].present
                           THEN Parse(last_response[c.lead].value) ELSE Null
       IN lastEvent' = Event("respond", [c EXCEPT !.data = ImmediateResponse(lastResponse),
                                                  !.pc = "answered"])
    /\ Leave(c)
    /\ UNCHANGED <<now, storeVars, timerVars, nextId, obsVars>>

RouteStepOf(c) ==
    \/ route_find(c)
    \/ route_process(c)
    \/ route_haf_lLen(c)
    \/ route_haf_existsTimer(c)
    \/ route_haf_existsProcessing(c)
    \/ route_lPush(c)
    \/ route_spi_lLen(c)
    \/ route_spi_get(c)
    \/ route_sch_get_timer(c)
    \/ route_sch_get(c)
    \/ route_sch_setEx_batch_start(c)
    \/ route_sch_setEx_timer(c)
    \/ route_ret_lLen(c)
    \/ route_setNX(c)
    \/ route_expire(c)
    \/ route_lRange(c)
    \/ route_callback(c)
    \/ route_setEx_last_response(c)
    \/ route_del_messages(c)
    \/ route_del_timer(c)
    \/ route_del_batch_start(c)
    \/ route_del_processing(c)
    \/ route_get_last_response(c)

(* A burst of webhook calls on one lead, one after the other, all within one        *)
(* MESSAGE_DELAY: no timer is due before the burst ends.                            *)
NextHook ==
    \/ \E i \in Instances, l \in Leads, ty \in HookTypes :
          webhook(i, l, ty, MaxMsgsHook, 1)
    \/ \E c \in calls : RouteStepOf(c)

SpecHook == Init /\ [][NextHook]_vars

(* Webhook calls on one lead, any time apart and overlapping, and the timers *)
NextDebounce ==
    \/ \E i \in Instances, l \in Leads, ty \in DebounceTypes :
          webhook(i, l, ty, MaxMsgsDebounce, MaxInFlightDebounce)
    \/ \E c \in calls : RouteStepOf(c)
    \/ \E t \in armed : RouteTimerFire(t)
    \/ Wait(MaxWaitsDebounce)

SpecDebounce == Init /\ [][NextDebounce]_vars

---------------------------------------------------------------------------
(* Properties *)

Running(l) == {c \in calls : c.lead = l /\ c.pc = "callback"}

QueueIds(l) == [k \in 1..Len(messages[l]) |-> Parse(messages[l][k]).message_id]

(* C1: for every lead, at most one Processing Callback is running at any time, as *)
(* long as no running callback has lasted longer than PROCESSING_TIMEOUT.          *)
C1_MutualExclusion ==
    \A l \in Leads :
        (\A c \in Running(l) : now - c.invokedAt <= PROCESSING_TIMEOUT * 1000)
            => Cardinality(Running(l)) <= 1

(* C2: the batch handed to the Processing Callback holds the events appended since *)
(* the last drain, each once, oldest first: the event at position k of messages    *)
(* and of combinedMessage is the k-th event that was appended.                     *)
C2_ArrivalOrder ==
    lastEvent.type = "invoke" =>
        LET b == lastEvent.call.batch
            a == arrived[lastEvent.call.lead]
        IN /\ b.messageCount = Len(a)
           /\ \A k \in 1..Len(a) :
                 /\ b.messages[k] = MessageData(a[k])
                 /\ b.combinedMessage[k] =
                        <<k, MessageData(a[k]).date, MessageData(a[k]).message>>

(* The latest step completed an event of type t on lead l; its call is Ev.        *)
Ev == lastEvent.call

(* No other call on the same lead was in flight at any time during the call.      *)
Alone(c) == ~c.sawAdd /\ ~c.sawFire

Drained(c) == c.outcome \in {"completed", "error"}

(* C3 as claimed: an addMessage that brings the queue to MAX_BATCH_SIZE, alone on  *)
(* the lead, drains before it returns, returns shouldProcessImmediately = true and *)
(* messagesInBatch = MAX_BATCH_SIZE, and leaves the queue key absent.              *)
C3_ImmediateThreshold_Claimed ==
    (lastEvent.type = "return" /\ Ev.messageCount = MAX_BATCH_SIZE /\ Alone(Ev)) =>
        /\ Ev.immediate /\ Ev.acquired /\ Drained(Ev)
        /\ Ev.batch.messageCount = MAX_BATCH_SIZE
        /\ Ev.messagesInBatch = MAX_BATCH_SIZE
        /\ messages[Ev.lead] = <<>>

(* C3: an addMessage that brings the queue to MAX_BATCH_SIZE, alone on the lead,   *)
(* drains the MAX_BATCH_SIZE events before it returns, returns                     *)
(* shouldProcessImmediately = true and messagesInBatch = 0 (the length read after  *)
(* the drain), and leaves the queue key absent.                                    *)
C3_ImmediateThreshold ==
    (lastEvent.type = "return" /\ Ev.messageCount = MAX_BATCH_SIZE /\ Alone(Ev)) =>
        /\ Ev.immediate /\ Ev.acquired /\ Drained(Ev)
        /\ Ev.batch.messageCount = MAX_BATCH_SIZE
        /\ \A k \in 1..MAX_BATCH_SIZE : delivered[Ev.batch.messages[k].message_id] = 1
        /\ Ev.messagesInBatch = 0
        /\ messages[Ev.lead] = <<>>

C3_Witness ==
    /\ lastEvent.type = "return" /\ Ev.messageCount = MAX_BATCH_SIZE /\ Alone(Ev)
    /\ Ev.immediate /\ Ev.outcome = "completed" /\ Ev.messagesInBatch = 0

(* C4: two events appended to a lead at t0 < t1 < t0 + MESSAGE_DELAY, with no      *)
(* further arrival: the Processing Callback is not invoked before                  *)
(* t1 + MESSAGE_DELAY, and when it is invoked the batch holds both events, each     *)
(* handed over once.                                                               *)
C4_DebounceSliding ==
    \A l \in Leads :
        LET a == arrived[l]
            f == flow[l]
        IN (Len(a) = 2 /\ nextId = a[2] + 1 /\ f.first < f.last
                /\ f.last < f.first + MESSAGE_DELAY) =>
              /\ delivered[a[1]] <= 1 /\ delivered[a[2]] <= 1
              /\ (delivered[a[1]] = 1 \/ delivered[a[2]] = 1) =>
                    /\ now >= f.last + MESSAGE_DELAY
                    /\ delivered[a[1]] = 1 /\ delivered[a[2]] = 1

(* C5: while events keep being appended to a lead less than MESSAGE_DELAY apart    *)
(* and the queue stays below MAX_BATCH_SIZE, the events appended since the last     *)
(* drain never wait longer than MAX_WAIT_TIME after the first of them.              *)
C5_OuterCeiling ==
    \A l \in Leads :
        (/\ calls = {}
         /\ Len(messages[l]) > 0 /\ Len(messages[l]) < MAX_BATCH_SIZE
         /\ flow[l].spaced /\ now - flow[l].last < MESSAGE_DELAY) =>
            now - flow[l].first <= MAX_WAIT_TIME

(* The step is one of call c: c leaves its await.                                 *)
StepsCall(c) == \A d \in calls' : ~(d.id = c.id /\ d.kind = c.kind /\ d.pc = c.pc)

(* C8: a processAndCloseFlow whose setNX returned false invokes no Processing       *)
(* Callback and leaves the queue, the batch_start marker, the timer marker and the  *)
(* armed in-process timer of the lead exactly as they were.                         *)
C8_ContentionNoOp ==
    [][\A c \in calls :
          (c.outcome = "skipped" /\ StepsCall(c)) =>
              /\ messages'[c.lead] = messages[c.lead]
              /\ batch_start'[c.lead] = batch_start[c.lead]
              /\ timerKey'[c.lead] = timerKey[c.lead]
              /\ timers'[c.inst][c.lead] = timers[c.inst][c.lead]
              /\ armed' = armed
              /\ delivered' = delivered]_vars

FlowKeysAbsent(l) ==
    /\ messages[l] = <<>>
    /\ ~timerKey[l].present
    /\ ~batch_start[l].present
    /\ ~processing[l].present

(* C6 as claimed: right after a processAndCloseFlow that acquired the lock          *)
(* finishes, no addMessage having run alongside it, the queue, the timer marker,    *)
(* the batch_start marker and the lock of the lead are absent and the instance      *)
(* holds no timer for the lead.                                                     *)
C6_CleanupInvariant_Claimed ==
    (lastEvent.type = "closed" /\ Ev.acquired /\ ~Ev.sawAdd) =>
        /\ FlowKeysAbsent(Ev.lead)
        /\ timers[Ev.inst][Ev.lead] = 0

(* C6: right after a processAndCloseFlow that acquired the lock finishes (callback  *)
(* succeeded, callback failed, or queue empty), neither an addMessage nor a timer   *)
(* callback for the lead having run alongside it, the queue, the timer marker, the  *)
(* batch_start marker and the lock of the lead are absent and the timers map of    *)
(* the instance holds no handle for the lead.                                       *)
C6_CleanupInvariant ==
    (lastEvent.type = "closed" /\ Ev.acquired /\ Alone(Ev)) =>
        /\ Ev.outcome \in {"completed", "error", "empty"}
        /\ FlowKeysAbsent(Ev.lead)
        /\ timers[Ev.inst][Ev.lead] = 0

C6_Witness ==
    /\ lastEvent.type = "closed" /\ Ev.acquired /\ Alone(Ev)
    /\ Ev.kind = "add" /\ Ev.outcome = "error"
    /\ FlowKeysAbsent(Ev.lead)

(* C7 as claimed: when a processAndCloseFlow that acquired the lock finishes         *)
(* (callback succeeded, callback failed, or queue empty), it has written            *)
(* last_response and the key is present.                                            *)
C7_LastResult_Claimed ==
    (lastEvent.type = "closed" /\ Ev.acquired) =>
        /\ Ev.savedAt # -1
        /\ last_response[Ev.lead].present

(* C7: a processAndCloseFlow that acquired the lock and invoked the Processing      *)
(* Callback writes last_response with TTL RESPONSE_TTL, whether the callback        *)
(* succeeded or failed and whether or not a last_response existed, and the key is   *)
(* still there, with at least that TTL, when the drain finishes; a drain that found *)
(* the queue empty writes nothing.                                                  *)
C7_LastResult ==
    /\ lastEvent.type = "saved" =>
          /\ Ev.acquired /\ Drained(Ev) /\ Ev.data.status = Ev.outcome
          /\ last_response[Ev.lead] = Key(Stringify(Ev.data), now + RESPONSE_TTL * 1000)
    /\ (lastEvent.type = "closed" /\ Ev.acquired) =>
          IF Drained(Ev)
          THEN /\ Ev.savedAt # -1
               /\ last_response[Ev.lead].present
               /\ last_response[Ev.lead].expireAt >= Ev.savedAt + RESPONSE_TTL * 1000
               /\ Alone(Ev) =>
                     last_response[Ev.lead] =
                         Key(Stringify(Ev.data), Ev.savedAt + RESPONSE_TTL * 1000)
          ELSE Ev.outcome = "empty" /\ Ev.savedAt = -1

C7_Witness ==
    /\ lastEvent.type = "closed" /\ Ev.acquired /\ Ev.outcome = "completed"
    /\ last_response[Ev.lead] = Key(Stringify(Ev.data), Ev.savedAt + RESPONSE_TTL * 1000)
    /\ Ev.savedAt > 0

(* C9: when the Processing Callback rejects, the drain writes last_response with    *)
(* status "error", the message of the Error (or 'Unknown error' for another         *)
(* value) and TTL RESPONSE_TTL, and its cleanup then deletes the queue, the timer   *)
(* marker, the batch_start marker and the lock.                                     *)
C9_ErrorPath ==
    /\ (lastEvent.type = "saved" /\ Ev.outcome = "error") =>
          /\ last_response[Ev.lead] =
                 Key(Stringify(ErrorData(Ev.thrown, Ev.data.processed_at)),
                     now + RESPONSE_TTL * 1000)
          /\ Parse(last_response[Ev.lead].value).status = "error"
          /\ Ev.thrown = "Error" => 
                Parse(last_response[Ev.lead].value).error = "error.message"
    /\ (lastEvent.type = "deleted" /\ Ev.outcome = "error") =>
          /\ Ev.savedAt # -1
          /\ FlowKeysAbsent(Ev.lead)
    /\ (lastEvent.type \in {"closed", "reject"} /\ Ev.outcome = "error") =>
          Ev.savedAt # -1

C9_Witness ==
    /\ lastEvent.type = "deleted" /\ Ev.outcome = "error" /\ Ev.thrown = "Error"
    /\ FlowKeysAbsent(Ev.lead)
    /\ last_response[Ev.lead].present /\ Parse(last_response[Ev.lead].value).status = "error"

(* C10 as claimed: an addMessage that took the immediate path and whose Processing  *)
(* Callback rejected does not return normally.                                      *)
C10_ImmediateFailurePropagates ==
    ~(lastEvent.type = "return" /\ Ev.immediate /\ Ev.outcome = "error")

(* C10: an addMessage that took the immediate path and whose Processing Callback    *)
(* rejected never rejects: once the error is saved nothing is pending, and the call *)
(* goes on to its final lLen and returns with shouldProcessImmediately = true.      *)
C10_ImmediateFailureSwallowed ==
    /\ lastEvent.type # "reject"
    /\ \A c \in calls :
          (c.kind = "add" /\ c.outcome = "error"
              /\ c.pc \in {"cleanup_del", "cleanup_timers", "ret_lLen"}) =>
                 c.immediate /\ ~c.pending /\ c.savedAt # -1
    /\ (lastEvent.type = "closed" /\ Ev.kind = "add" /\ Ev.outcome = "error") =>
          \E c \in calls : c.id = Ev.id /\ c.kind = "add" /\ c.pc = "ret_lLen"

C10_Witness ==
    /\ lastEvent.type = "return" /\ Ev.immediate /\ Ev.outcome = "error"
    /\ last_response[Ev.lead].present /\ Parse(last_response[Ev.lead].value).status = "error"

(* C12: an addMessage that ran with no other call on its lead has isNewFlow = true *)
(* exactly when, before its own append, the queue was empty and neither the timer   *)
(* marker nor the lock existed; so the first addMessage after IDLE returns true and *)
(* every later one before the drain returns false.                                  *)
C12_IsNewFlow ==
    /\ (lastEvent.type = "lPush" /\ Alone(Ev)) =>
          (Ev.isNewFlow <=> /\ Len(messages[Ev.lead]) = 1
                            /\ ~timerKey[Ev.lead].present
                            /\ ~processing[Ev.lead].present)
    /\ (lastEvent.type = "return" /\ Alone(Ev) /\ ~Ev.immediate) =>
          (Ev.isNewFlow => Ev.messagesInBatch = 1)
    /\ (lastEvent.type = "return" /\ Alone(Ev) /\ ~Ev.immediate /\ Ev.messagesInBatch > 1) =>
          ~Ev.isNewFlow

C12_Witness ==
    /\ lastEvent.type = "return" /\ Alone(Ev) /\ ~Ev.isNewFlow
    /\ Ev.messagesInBatch = 2 /\ Ev.id = 2

(* C15: while a Processing Callback of a lead is running and PROCESSING_TIMEOUT has *)
(* not elapsed since its drain took the lock, the lock key exists: only the drain   *)
(* that acquired the lock, or the expiry of its TTL, removes it.                    *)
C15_LockOwnership ==
    \A l \in Leads : \A c \in Running(l) :
        (c.acquired /\ now - c.invokedAt < PROCESSING_TIMEOUT * 1000) =>
            processing[l].present

TimersOf(i, l) == {t \in armed : t.inst = i /\ t.lead = l}

(* C16: on an instance, at most one timer is armed for a lead at any time, and an   *)
(* armed timer is the one recorded in the timers map.                               *)
C16_TimerCancellation ==
    \A i \in Instances, l \in Leads :
        /\ Cardinality(TimersOf(i, l)) <= 1
        /\ \A t \in TimersOf(i, l) : timers[i][l] = t.id

(* C18: whenever the queue of a lead is non-empty while no addMessage for the lead  *)
(* is in flight and no drain of the lead is in progress, some instance has a timer  *)
(* armed for the lead.                                                              *)
C18_QueueNeverStranded ==
    \A l \in Leads :
        (messages[l] # <<>> /\ \A c \in calls : c.lead # l) =>
            \E t \in armed : t.lead = l

BatchIds(c) == {c.batch.messages[k].message_id : k \in 1..Len(c.batch.messages)}

(* The events in the queue of c's lead that came after c's lRange *)
LateIds(c) == {arrived[c.lead][k] : k \in 1..Len(arrived[c.lead])} \ BatchIds(c)

(* C19: when the cleanup of a drain that invoked the Processing Callback deletes    *)
(* the queue, an event appended after that drain's lRange is not in its batch,      *)
(* leaves the queue with the delete, and has been handed to no Processing Callback  *)
(* (nor can it be later, being gone).                                               *)
C19_LossWindow_Claimed ==
    [][\A c \in calls :
          (c.pc = "cleanup_del" /\ c.invokedAt # -1 /\ StepsCall(c)) =>
              \A n \in LateIds(c) :
                  /\ n \notin BatchIds(c)
                  /\ messages'[c.lead] = <<>>
                  /\ delivered'[n] = 0]_vars

(* C18 witness: after a drain, a later event waits in the queue with its timer armed *)
C18_Witness ==
    \E l \in Leads :
        /\ messages[l] # <<>> /\ \A c \in calls : c.lead # l
        /\ last_response[l].present
        /\ \E t \in armed : t.lead = l /\ t.id = Parse(messages[l][1]).message_id

(* C17: within a flow (the queue stays non-empty) the batch_start marker is created *)
(* once, by the addMessage of the flow's first event, and its value never changes.  *)
C17_WindowSetOnce ==
    [][\A l \in Leads :
          (messages[l] # <<>> /\ messages'[l] # <<>>) =>
              /\ (batch_start[l].present /\ batch_start'[l].present) =>
                     batch_start'[l].value = batch_start[l].value
              /\ \A c \in calls :
                    (c.lead = l /\ c.pc = "sch_setEx_batch_start" /\ StepsCall(c)) =>
                        ~batch_start[l].present /\ c.id = arrived[l][1]]_vars

IsQuery(c) == c.kind \in {"status", "last"}

(* C14: no step of getProcessingStatus or getLastResponse, from the call to the     *)
(* return, changes a store key or the timers of the instance, and getLastResponse   *)
(* returns null exactly when the last_response key does not exist (the parsed value *)
(* otherwise).                                                                      *)
C14_QueriesReadOnly ==
    [][/\ ((\E c \in calls : IsQuery(c) /\ StepsCall(c))
              \/ (\E d \in calls' : IsQuery(d) /\ \A c \in calls : ~(c.kind = d.kind /\ c.id = d.id))) =>
                 UNCHANGED <<storeVars, timerVars, arrived, delivered>>
       /\ (lastEvent'.type = "answer" /\ lastEvent'.call.kind = "last") =>
             LET k == last_response[lastEvent'.call.lead]
             IN /\ (lastEvent'.call.data = Null) <=> ~k.present
                /\ k.present => lastEvent'.call.data = Parse(k.value)
       /\ (lastEvent'.type = "answer" /\ lastEvent'.call.kind = "status") =>
             (lastEvent'.call.data.batch_started_at = Null)
                 <=> ~batch_start[lastEvent'.call.lead].present]_vars

C14_Witness ==
    /\ lastEvent.type = "answer" /\ Ev.kind = "status"
    /\ Ev.data.is_processing /\ Ev.data.messages_in_batch = 1
    /\ Ev.data.last_response = Null /\ Ev.data.batch_started_at # Null
    /\ processing[Ev.lead].present /\ Len(messages[Ev.lead]) = 1

(* C11: a processAndCloseFlow that finds the queue empty with the lock free does    *)
(* not invoke the Processing Callback and writes no last_response; when it ends,    *)
(* nothing else having run on the lead, the queue, the timer marker, the            *)
(* batch_start marker and the lock are absent and the instance holds no timer; a    *)
(* second run right after it ends in the same state.                                *)
C11_EmptyDrain ==
    /\ \A c \in calls : c.invokedAt # -1 => c.batch.messageCount >= 1
    /\ lastEvent.type = "invoke" => Len(messages[Ev.lead]) >= 1
    /\ \A c \in calls : c.outcome = "empty" =>
          c.acquired /\ c.invokedAt = -1 /\ c.savedAt = -1 /\ ~c.pending
    /\ (lastEvent.type = "closed" /\ Ev.outcome = "empty") =>
          /\ Ev.acquired /\ Ev.invokedAt = -1 /\ Ev.savedAt = -1
          /\ Alone(Ev) => /\ FlowKeysAbsent(Ev.lead)
                          /\ timers[Ev.inst][Ev.lead] = 0
                          /\ \A t \in armed : t.lead # Ev.lead
    /\ (lastEvent.type = "closed" /\ Ev.kind = "run" /\ Ev.id > 1 /\ Alone(Ev)) =>
          /\ Ev.outcome = "empty"
          /\ FlowKeysAbsent(Ev.lead)

C11_Witness ==
    /\ lastEvent.type = "closed" /\ Ev.kind = "run" /\ Ev.id = 2
    /\ Ev.outcome = "empty" /\ Alone(Ev)
    /\ FlowKeysAbsent(Ev.lead)
    /\ last_response[Ev.lead].present

(* C13: an addMessage call in which a store command failed, the commands of its     *)
(* immediate processAndCloseFlow included, does not return normally, and none of    *)
(* its steps after the failure removes an event from the queue.                     *)
C13_StoreFailuresPropagate ==
    [][/\ lastEvent'.type = "return" => lastEvent'.call.failed = "none"
       /\ \A c \in calls :
             (c.kind = "add" /\ c.failed # "none" /\ StepsCall(c)) =>
                 Len(messages'[c.lead]) >= Len(messages[c.lead])]_vars

(* C20: a lock left behind by a process that died after its setNX succeeded has a   *)
(* time to live that ends at most PROCESSING_TIMEOUT after the crash, so that the   *)
(* key expires and a later processAndCloseFlow can acquire it.                      *)
C20_CrashRecovery ==
    \A l \in Leads :
        (processing[l].present /\ \A c \in calls : ~(c.lead = l /\ c.acquired)) =>
            /\ processing[l].expireAt # NoTTL
            /\ processing[l].expireAt <= now + PROCESSING_TIMEOUT * 1000

(* C29: the Processing Callback is invoked only by a processAndCloseFlow whose      *)
(* setNX returned true, with a batch of at least one message whose messageCount is  *)
(* the length of its messages; the processed_messages saved in a completed          *)
(* last_response is that messageCount.                                              *)
C29_CallbackGuard ==
    /\ \A c \in calls :
          c.invokedAt # -1 =>
              /\ c.acquired
              /\ c.batch.messageCount >= 1
              /\ c.batch.messageCount = Len(c.batch.messages)
    /\ lastEvent.type = "invoke" =>
          /\ Ev.acquired
          /\ Ev.batch.messageCount >= 1
          /\ Ev.batch.messageCount = Len(Ev.batch.messages)
    /\ (lastEvent.type = "saved" /\ Ev.outcome = "completed") =>
          /\ Ev.invokedAt # -1
          /\ Parse(last_response[Ev.lead].value).status = "completed"
          /\ Parse(last_response[Ev.lead].value).processed_messages = Ev.batch.messageCount

(* a callback is invoked while another processAndCloseFlow, refused by setNX, ends  *)
C29_Witness ==
    /\ lastEvent.type = "saved" /\ Ev.outcome = "completed"
    /\ Parse(last_response[Ev.lead].value).processed_messages = 1
    /\ \E d \in calls : d.outcome = "skipped" /\ ~d.acquired

(* C22: a processAndCloseFlow started by a timer whose Processing Callback rejects  *)
(* saves the error last_response and ends with nothing pending: no exception        *)
(* leaves the timer callback.                                                       *)
C22_TimerDrainNeverRethrows ==
    /\ \A c \in calls :
          (c.kind = "fire" /\ c.outcome = "error"
              /\ c.pc \in {"cleanup_del", "cleanup_timers"}) =>
                 ~c.pending /\ c.savedAt # -1
    /\ (lastEvent.type = "saved" /\ Ev.kind = "fire" /\ Ev.outcome = "error") =>
          /\ ~Ev.pending
          /\ Ev.data.processed_at \in Ev.invokedAt..now
          /\ last_response[Ev.lead] =
                 Key(Stringify(ErrorData(Ev.thrown, Ev.data.processed_at)),
                     now + RESPONSE_TTL * 1000)
    /\ (lastEvent.type \in {"closed", "reject"} /\ Ev.kind = "fire") =>
          lastEvent.type = "closed" /\ ~Ev.pending

C22_Witness ==
    /\ lastEvent.type = "closed" /\ Ev.kind = "fire" /\ Ev.outcome = "error"
    /\ Ev.thrown = "other" /\ ~Ev.pending
    /\ last_response[Ev.lead].present
    /\ Parse(last_response[Ev.lead].value).error = "Unknown error"

(* C23: when an addMessage that ran with no other call on its lead returns          *)
(* shouldProcessImmediately = false, it has invoked no Processing Callback, the      *)
(* queue is not empty, batch_start exists, the timer marker exists and expires       *)
(* MESSAGE_DELAY + 5000 ms after the call wrote it, exactly one timer of the         *)
(* instance is armed for the lead, the one this call armed, due MESSAGE_DELAY after  *)
(* the call armed it, and messagesInBatch is the number of events appended since the *)
(* queue was last emptied.  (The call writes and arms between its lPush and its      *)
(* return.)                                                                          *)
C23_AccumulatingPostState ==
    (lastEvent.type = "return" /\ ~Ev.immediate /\ Alone(Ev)) =>
        /\ Ev.invokedAt = -1
        /\ messages[Ev.lead] # <<>>
        /\ batch_start[Ev.lead].present
        /\ timerKey[Ev.lead].present
        /\ timerKey[Ev.lead].expireAt - (MESSAGE_DELAY + TIMER_MARKER_MARGIN)
               \in flow[Ev.lead].last..now
        /\ Cardinality(TimersOf(Ev.inst, Ev.lead)) = 1
        /\ \A t \in TimersOf(Ev.inst, Ev.lead) :
              t.id = Ev.id /\ t.fireAt - MESSAGE_DELAY \in flow[Ev.lead].last..now
        /\ Ev.messagesInBatch = Len(arrived[Ev.lead])
        /\ Ev.messagesInBatch = Len(messages[Ev.lead])

(* A processAndCloseFlow that has read the queue with lRange and has not yet sent    *)
(* the dels of its cleanupFlow.                                                     *)
HasRead(d) ==
    /\ d.pc \in {"callback", "setEx_last_response", "cleanup_del"}
    /\ d.invokedAt # -1 \/ d.outcome = "empty"

(* C27: an event leaves the queue without having been in the batch of a Processing  *)
(* Callback only if it was appended between the lRange and the delete of a drain:   *)
(* whenever a cleanupFlow deletes the queue, each event in it that no callback has   *)
(* received is missing from the batch of a drain that has read the queue and not    *)
(* yet deleted it.                                                                  *)
C27_NoSilentLoss ==
    [][\A c \in calls :
          (c.pc = "cleanup_del" /\ StepsCall(c)) =>
              \A k \in 1..Len(arrived[c.lead]) :
                  delivered[arrived[c.lead][k]] = 0 =>
                      \E d \in calls :
                          /\ d.lead = c.lead /\ HasRead(d)
                          /\ arrived[c.lead][k] \notin BatchIds(d)]_vars

(* C21: when a timer fires on an instance while the other instance holds the armed  *)
(* timer of the latest arrival of the lead, the drain it starts does not hand that  *)
(* arrival to the Processing Callback, and its cleanup removes no event that no     *)
(* callback has received.                                                           *)
C21_RedundantTimerHarmless ==
    [][\A c \in calls :
          (c.kind = "fire" /\ StepsCall(c) /\ arrived[c.lead] # <<>>) =>
              LET latest == arrived[c.lead][Len(arrived[c.lead])]
                  debouncing == \E t \in armed :
                                    t.lead = c.lead /\ t.inst # c.inst /\ t.id = latest
              IN /\ (c.pc = "lRange" /\ debouncing) => delivered'[latest] = delivered[latest]
                 /\ (c.pc = "cleanup_del" /\ debouncing) =>
                        \A k \in 1..Len(arrived[c.lead]) :
                            delivered[arrived[c.lead][k]] >= 1]_vars

(* C28: as long as no Processing Callback has been running for more than            *)
(* PROCESSING_TIMEOUT, no event has been in the batch of two Processing Callback     *)
(* invocations.                                                                     *)
C28_NoDuplicateDelivery ==
    (\A l \in AllLeads : \A c \in Running(l) :
         now - c.invokedAt <= PROCESSING_TIMEOUT * 1000) =>
        \A n \in 1..Len(delivered) : delivered[n] <= 1

(* Everything the program keeps for lead f: its five keys, the timers map entry and *)
(* the armed timers of every process, and its calls in flight (the order in which   *)
(* the replies of the connection came is not a part of it).                         *)
LeadState(f) ==
    <<messages[f], processing[f], batch_start[f], timerKey[f], last_response[f],
      [i \in AllInstances |-> timers[i][f]], {t \in armed : t.lead = f},
      {[c EXCEPT !.overtook = {}] : c \in {d \in calls : d.lead = f}},
      arrived[f], flow[f]>>

(* C24: every step of the program other than the passing of time (an addMessage     *)
(* call, a command of a call, a timer firing, a cleanup) belongs to one lead and    *)
(* leaves the queue, lock, markers, last_response, timers and calls of every other  *)
(* lead as they were.                                                               *)
C24_EntityIndependence ==
    [][now' = now =>
         \E e \in AllLeads :
             /\ LeadState(e)' # LeadState(e)
             /\ \A f \in AllLeads \ {e} : LeadState(f)' = LeadState(f)]_vars

(* the cleanup of a drain of one lead has just ended while the other lead has a     *)
(* queue, its markers and an armed timer                                            *)
C24_Witness ==
    \E e \in AllLeads, f \in AllLeads :
        /\ e # f
        /\ lastEvent.type = "closed" /\ lastEvent.call.lead = e
        /\ lastEvent.call.outcome = "completed"
        /\ messages[e] = <<>> /\ ~timerKey[e].present
        /\ messages[f] # <<>> /\ timerKey[f].present /\ batch_start[f].present
        /\ \E t \in armed : t.lead = f /\ timers[t.inst][f] = t.id

(* C25: when POST /webhook/ answers on the immediate path, the generic message      *)
(* "Procesado correctamente" with processed_messages 0 is sent only if the lead has *)
(* no last_response, never after a drain that saved one with status "error", and a *)
(* drain that saved its result is answered with that result.                        *)
C25_WebhookImmediateResponse ==
    (lastEvent.type = "respond" /\ lastEvent.call.immediate) =>
        LET body == lastEvent.call.data
            saved == last_response[lastEvent.call.lead]
            generic == /\ body.message = "Procesado correctamente"
                       /\ body.processed_messages = 0
        IN /\ generic => ~saved.present
           /\ lastEvent.call.outcome = "error" => ~generic
           /\ lastEvent.call.outcome = "completed" =>
                  /\ body.message = Parse(saved.value).response
                  /\ body.processed_messages = Parse(saved.value).processed_messages

(* C26: in the webhook route, a message that comes less than MESSAGE_DELAY after    *)
(* the previous message of its lead leaves only its own timer armed, the earlier    *)
(* one being cancelled, and a timer's drain hands the batch to processMessageBatch  *)
(* no sooner than MESSAGE_DELAY after the latest message in it.                     *)
C26_RouteDebounce ==
    /\ \A t \in armed, u \in armed :
          (t.lead = u.lead /\ t.id < u.id) => u.fireAt - t.fireAt >= MESSAGE_DELAY
    /\ (lastEvent.type = "invoke" /\ lastEvent.call.kind = "rfire") =>
          now >= flow[lastEvent.call.lead].last + MESSAGE_DELAY

====
